---------------------------- MODULE Spec2Model ----------------------------
(***************************************************************************)
(* Directory synchronisation and ingestion pipeline of imgrep              *)
(* (backend/app/services): the two change-detection strategies, the        *)
(* tracked-directory registry, the ingestion orchestrator and the          *)
(* background scheduler, as state machines over a small file system.       *)
(*                                                                         *)
(* Paths are TLA+ strings, so that str.startswith, SQL LIKE 'prefix%' and  *)
(* pathlib's join are computed character by character as the code does.    *)
(* Result lists (added / modified / deleted) are kept as sets: the code    *)
(* that consumes them treats every element independently.                  *)
(***************************************************************************)
EXTENDS Integers, Sequences, FiniteSets, TLC

(***************************************************************************)
(* Bounds of the model and constants of the program.                       *)
(***************************************************************************)
\* File contents are 1..MaxContent; 0 stands for "no such file".
MaxContent == 3
\* Modification times a file can carry are 0..MaxMtime.
MaxMtime == 1
\* The clock advances at most MaxTime times.
MaxTime == 2
\* Ingestion stops when an Image or Embedding id would pass MaxId.
MaxId == 2
\* The scheduler creates at most MaxJobs jobs.
MaxJobs == 2
\* mark_for_retry is called on rows whose retry_count is below MaxRetries.
MaxRetries == 4
\* _hash_children is applied to lists of at most MaxChildren hashes.
MaxChildren == 3
\* A batch handed to the embedder holds at most MaxFiles files: more than
\* one sub-batch of 12.
MaxFiles == 15

Contents == 1..MaxContent
Mtimes == 0..MaxMtime

\* NULL for nullable integer columns (last_synced_at) and for last_error.
NullTime == -1
NullError == "NULL"

(***************************************************************************)
(* Strings.                                                                *)
(***************************************************************************)
\* str.startswith(prefix)
StartsWith(s, p) == Len(p) <= Len(s) /\ SubSeq(s, 1, Len(p)) = p

\* s with its first n characters dropped
DropPrefix(s, n) == SubSeq(s, n + 1, Len(s))

\* Index of the first "/" in s, or 0 when there is none.
RECURSIVE SlashAt(_, _)
SlashAt(s, i) ==
    IF i > Len(s) THEN 0
    ELSE IF SubSeq(s, i, i) = "/" THEN i
    ELSE SlashAt(s, i + 1)

FirstSlash(s) == SlashAt(s, 1)

\* Path.resolve() on the inputs the model feeds it: a trailing "/" is dropped.
Resolve(s) ==
    IF Len(s) > 1 /\ SubSeq(s, Len(s), Len(s)) = "/"
    THEN SubSeq(s, 1, Len(s) - 1)
    ELSE s

\* str(Path(root) / rel): pathlib drops a "." component and joins with "/".
JoinPath(root, rel) == IF rel = "." THEN root ELSE root \o "/" \o rel

(***************************************************************************)
(* The file system the program looks at.                                   *)
(***************************************************************************)
\* Every image file path any scenario writes to.
AllFiles ==
    { "/p/a.jpg", "/p/b.jpg", "/p/s/b.jpg", "/p/s/t/c.jpg", "/pq/a.jpg" }

\* Every directory that can be registered.
AllDirs == { "/p", "/pq" }

NoFile == [content |-> 0, mtime |-> 0]

\* No Settings row has been persisted.
NoSettings ==
    [auto_reindex |-> TRUE, sync_frequency |-> "none", batch_size |-> 0,
     image_extensions |-> <<>>, embedding_model |-> ""]

VARIABLES
    now,            \* wall clock, seconds
    fs,             \* absolute file path -> [content, mtime], NoFile if absent
    dirs,           \* directories that exist
    tracked,        \* TrackedDirectory rows
    snapshots,      \* DirectorySnapshot rows
    merkle_nodes,   \* MerkleNode rows
    images,         \* Image rows
    embeddings,     \* Embedding rows
    assignments,    \* ClusterAssignment rows
    vector_store,   \* entries of the vector store collection
    settings,       \* the persisted Settings row, NoSettings if none
    _ingestion_job_service, \* "none" or "service", as the service was built
    _sync_enabled,  \* DirectorySyncService._sync_enabled
    _sync_interval_seconds, \* DirectorySyncService._sync_interval_seconds
    _batch_size,    \* DirectorySyncService._batch_size
    _image_extensions, \* DirectorySyncService._image_extensions
    _embedding_model, \* DirectorySyncService._embedding_model
    _sync_task,     \* "none", "running" or "done"
    _stop_event,    \* "none" (not created), "clear" or "set"
    pc,             \* where each live _sync_loop task stands
    loop_dirs,      \* the rows _sync_loop loaded and has not yet looked at
    job_id,         \* the job of the pass a loop task is in, 0 if none
    jobs,           \* the job records (_active_jobs), in creation order
    synced_clean,   \* <<directory id, strategy>> synced with no file change since
    last            \* what the last operation did and returned

ingestVars == <<images, embeddings, assignments, vector_store>>

\* The settings of the service that the loop does not read itself.
loopSettings == <<_batch_size, _image_extensions, _embedding_model>>

schedVars ==
    <<settings, _ingestion_job_service, _sync_enabled, _sync_interval_seconds,
      loopSettings,
      _sync_task, _stop_event, pc, loop_dirs, job_id, jobs>>

vars ==
    <<now, fs, dirs, tracked, snapshots, merkle_nodes, images, embeddings,
      assignments, vector_store, settings, _ingestion_job_service, _sync_enabled,
      _sync_interval_seconds, _batch_size, _image_extensions, _embedding_model,
      _sync_task, _stop_event, pc, loop_dirs, job_id, jobs, synced_clean, last>>

Exists(p) == fs[p].content # 0

\* stat().st_size: a function of the bytes. Contents 1 and 2 have the same size.
SizeOf(c) == (c + 1) \div 2

\* compute_file_hash: SHA-256 of the bytes, injective on the contents modelled.
\* A hash is a sequence of integers so that file and directory hashes share a type.
FileHash(c) == <<c>>

compute_file_hash(p) == FileHash(fs[p].content)

\* Bytes that are no image: PILImage.open raises on them, so that
\* generate_thumbnail raises. The contents above MaxContent are such bytes.
BadContent == MaxContent + 1
Undecodable(p) == fs[p].content > MaxContent

\* The files under a directory root (rglob over the image extensions).
scan_directory(root) ==
    { p \in AllFiles : Exists(p) /\ StartsWith(p, root \o "/") }

\* str(path.relative_to(root))
relative_to(p, root) == DropPrefix(p, Len(root) + 1)

(***************************************************************************)
(* Tracked-directory rows.                                                 *)
(***************************************************************************)
\* SQLite INTEGER PRIMARY KEY: the new rowid is the largest one in use plus 1.
Max(S) == IF S = {} THEN 0 ELSE CHOOSE x \in S : \A y \in S : y <= x

NextId(rows) == Max({ r.id : r \in rows }) + 1

\* Replace the row with r.id by r.
PutTracked(rows, r) == { x \in rows : x.id # r.id } \cup { r }

(***************************************************************************)
(* SnapshotSyncStrategy.                                                   *)
(***************************************************************************)
_load_snapshots(id) == { s \in snapshots : s.tracked_directory_id = id }

SnapRels(rows) == { s.relative_path : s \in rows }

SnapRow(rows, rel) == CHOOSE s \in rows : s.relative_path = rel

\* _scan_files: relative path -> absolute path, size, mtime
_scan_files(root) ==
    { [relative_path |-> relative_to(p, root), path |-> p,
       size |-> SizeOf(fs[p].content), mtime |-> fs[p].mtime] :
      p \in scan_directory(root) }

\* Mutant of MetaDiffers: the modification time is not compared.
MetaDiffers_SizeOnly(existing, f) == existing.file_size # f.size

\* The metadata test of _detect_changes: size or mtime differs from the row.
MetaDiffers(existing, f) ==
    existing.file_size # f.size \/ existing.modified_time # f.mtime

\* The classification _detect_changes gives one scanned file.
Classify(f, existing_rows) ==
    IF f.relative_path \notin SnapRels(existing_rows) THEN "added"
    ELSE LET existing == SnapRow(existing_rows, f.relative_path) IN
         IF MetaDiffers(existing, f)
         THEN IF existing.file_hash # compute_file_hash(f.path)
              THEN "modified"
              ELSE "touched"
         ELSE "unchanged"

\* _detect_changes: (added, modified, unchanged); a touched file counts as
\* unchanged and has its row's modified_time refreshed.
_detect_changes(current_files, existing_rows) ==
    [added |-> { f.path : f \in { g \in current_files :
                                   Classify(g, existing_rows) = "added" } },
     modified |-> { f.path : f \in { g \in current_files :
                                   Classify(g, existing_rows) = "modified" } },
     touched |-> { f \in current_files : Classify(f, existing_rows) = "touched" },
     unchanged |-> Cardinality({ f \in current_files :
                     Classify(f, existing_rows) \in {"touched", "unchanged"} })]

\* Mutant of _update_snapshots: rows of modified files are not rewritten.
_update_snapshots_AddedOnly(id, root, existing_rows, current_files, det, deleted) ==
    LET kept == { s \in existing_rows :
                    /\ JoinPath(root, s.relative_path) \notin det.added
                    /\ s.relative_path \notin deleted }
        fresh == { [tracked_directory_id |-> id,
                    relative_path |-> relative_to(p, root),
                    file_hash |-> compute_file_hash(p),
                    file_size |-> SizeOf(fs[p].content),
                    modified_time |-> fs[p].mtime] : p \in det.added }
    IN kept \cup fresh

\* The rows of one directory after _detect_changes' mtime refresh and
\* _update_snapshots' upserts and deletes.
_update_snapshots(id, root, existing_rows, current_files, det, deleted) ==
    LET refreshed ==
            { IF \E f \in det.touched : f.relative_path = s.relative_path
              THEN [s EXCEPT !.modified_time =
                      (CHOOSE f \in det.touched :
                          f.relative_path = s.relative_path).mtime]
              ELSE s : s \in existing_rows }
        upserted == det.added \cup det.modified
        kept == { s \in refreshed :
                    /\ JoinPath(root, s.relative_path) \notin upserted
                    /\ s.relative_path \notin deleted }
        fresh == { [tracked_directory_id |-> id,
                    relative_path |-> relative_to(p, root),
                    file_hash |-> compute_file_hash(p),
                    file_size |-> SizeOf(fs[p].content),
                    modified_time |-> fs[p].mtime] : p \in upserted }
    IN kept \cup fresh

\* The SyncResult of a directory whose path does not exist.
MissingDirResult(td, strategy) ==
    [op |-> "sync", dir |-> td.id, strategy_used |-> strategy, ok |-> FALSE,
     added |-> {}, modified |-> {}, deleted |-> {}, unchanged |-> 0,
     errors |-> 1, scanned |-> {}, stored |-> {}, clean |-> FALSE]

\* SnapshotSyncStrategy.sync on tracked row td: the SyncResult it returns.
SnapshotResult(td) ==
    LET root == Resolve(td.path)
        existing_rows == _load_snapshots(td.id)
        current_files == _scan_files(root)
        det == _detect_changes(current_files, existing_rows)
        deleted == { rel \in SnapRels(existing_rows) :
                       rel \notin { f.relative_path : f \in current_files } }
    IN IF root \notin dirs
       THEN MissingDirResult(td, "snapshot")
       ELSE [op |-> "sync", dir |-> td.id, strategy_used |-> "snapshot",
             ok |-> TRUE,
             added |-> det.added, modified |-> det.modified,
             deleted |-> deleted, unchanged |-> det.unchanged,
             errors |-> 0,
             scanned |-> { f.path : f \in current_files },
             stored |-> existing_rows,
             clean |-> <<td.id, "snapshot">> \in synced_clean]

\* SnapshotSyncStrategy.sync on tracked row td: the snapshot table afterwards.
SnapshotRows(td) ==
    LET root == Resolve(td.path)
        existing_rows == _load_snapshots(td.id)
        current_files == _scan_files(root)
        det == _detect_changes(current_files, existing_rows)
        deleted == { rel \in SnapRels(existing_rows) :
                       rel \notin { f.relative_path : f \in current_files } }
    IN IF root \notin dirs
       THEN snapshots
       ELSE (snapshots \ existing_rows)
            \cup _update_snapshots(td.id, root, existing_rows, current_files,
                                   det, deleted)

\* The tracked row after a strategy's successful sync (last_synced_at, last_error).
MarkSynced(td) == [td EXCEPT !.last_synced_at = now, !.last_error = NullError]

\* SnapshotSyncStrategy.sync as one operation on directory id.
SnapshotSync(id) ==
    /\ \E td \in tracked :
        /\ td.id = id
        /\ td.sync_strategy = "snapshot"
        /\ LET res == SnapshotResult(td) IN
           /\ last' = res
           /\ snapshots' = SnapshotRows(td)
           /\ tracked' = IF res.ok THEN PutTracked(tracked, MarkSynced(td))
                         ELSE tracked
           /\ synced_clean' = IF res.ok
                              THEN synced_clean \cup {<<id, "snapshot">>}
                              ELSE synced_clean
    /\ UNCHANGED <<now, fs, dirs, merkle_nodes>>
    /\ UNCHANGED <<ingestVars, schedVars>>

(***************************************************************************)
(* MerkleSyncStrategy.                                                     *)
(***************************************************************************)
\* Lexicographic order on hashes (Python's sorted() on the hex digests).
RECURSIVE LexLeq(_, _)
LexLeq(a, b) ==
    IF a = <<>> THEN TRUE
    ELSE IF b = <<>> THEN FALSE
    ELSE IF Head(a) < Head(b) THEN TRUE
    ELSE IF Head(a) > Head(b) THEN FALSE
    ELSE LexLeq(Tail(a), Tail(b))

\* Insert hash h into the sorted list of hashes hs.
RECURSIVE InsertSorted(_, _)
InsertSorted(h, hs) ==
    IF hs = <<>> THEN <<h>>
    ELSE IF LexLeq(h, Head(hs)) THEN <<h>> \o hs
    ELSE <<Head(hs)>> \o InsertSorted(h, Tail(hs))

\* Mutant of SortHashes: the list is left in the order given.
SortHashes_AsGiven(hs) == hs

\* sorted(child_hashes)
RECURSIVE SortHashes(_)
SortHashes(hs) ==
    IF hs = <<>> THEN <<>> ELSE InsertSorted(Head(hs), SortHashes(Tail(hs)))

\* ",".join(hashes): -2 stands for the comma.
RECURSIVE JoinHashes(_)
JoinHashes(hs) ==
    IF hs = <<>> THEN <<>>
    ELSE IF Len(hs) = 1 THEN Head(hs)
    ELSE Head(hs) \o <<-2>> \o JoinHashes(Tail(hs))

\* _hash_children: SHA-256 of the joined sorted child hashes. The digest is
\* modelled by the bracketed string it is taken of, which keeps it injective.
_hash_children(child_hashes) ==
    <<-1>> \o JoinHashes(SortHashes(child_hashes)) \o <<-3>>

\* _hash_children applied to a list of child hashes, as _build_merkle_tree
\* applies it to the hashes it collected from a directory's entries.
HashChildren(child_hashes) ==
    /\ last' = [op |-> "hash_children", child_hashes |-> child_hashes,
                dir_hash |-> _hash_children(child_hashes)]
    /\ UNCHANGED <<now, fs, dirs, tracked, snapshots, merkle_nodes,
                   synced_clean>>
    /\ UNCHANGED <<ingestVars, schedVars>>

\* The relative paths of the image files below directory rel ("" is the root).
RelsBelow(root, rel) ==
    { r \in { relative_to(p, root) : p \in scan_directory(root) } :
        rel = "" \/ StartsWith(r, rel \o "/") }

\* r with the directory prefix of rel removed.
Rest(rel, r) == IF rel = "" THEN r ELSE DropPrefix(r, Len(rel) + 1)

\* dir_path.iterdir(): the entries of directory rel that are image files or
\* hold some. A directory exists in the model iff an image file lies below it.
Items(root, rel) ==
    { IF FirstSlash(Rest(rel, r)) = 0
      THEN [name |-> Rest(rel, r), is_dir |-> FALSE]
      ELSE [name |-> SubSeq(Rest(rel, r), 1, FirstSlash(Rest(rel, r)) - 1),
            is_dir |-> TRUE] : r \in RelsBelow(root, rel) }

\* item_relative
ItemRelative(rel, name) == IF rel = "" THEN name ELSE rel \o "/" \o name

\* The hashes of a set of [name, hash] entries as a list, in some order (the
\* order does not survive _hash_children's sort).
RECURSIVE ListOf(_)
ListOf(S) ==
    IF S = {} THEN <<>>
    ELSE LET x == CHOOSE y \in S : TRUE IN <<x.hash>> \o ListOf(S \ {x})

\* _build_merkle_tree: [hash, nodes] of directory rel of tracked directory id.
\* parent_id is None on every node the code builds and is left out.
RECURSIVE _build_merkle_tree(_, _, _)
_build_merkle_tree(root, rel, id) ==
    LET items == Items(root, rel)
        files == { it \in items : ~it.is_dir }
        subdirs == { it \in items : it.is_dir }
        sub(it) == _build_merkle_tree(root, ItemRelative(rel, it.name), id)
        file_hash(it) == compute_file_hash(JoinPath(root, ItemRelative(rel, it.name)))
        sub_hash(it) == sub(it).hash
        file_nodes ==
            { [tracked_directory_id |-> id,
               node_hash |-> file_hash(it),
               node_type |-> "file",
               relative_path |-> ItemRelative(rel, it.name),
               file_size |-> SizeOf(fs[JoinPath(root, ItemRelative(rel, it.name))].content)] :
              it \in files }
        child_hashes ==
            ListOf({ [name |-> it.name, hash |-> sub_hash(it)] :
                     it \in { d \in subdirs : sub(d).hash # <<>> } })
            \o ListOf({ [name |-> it.name, hash |-> file_hash(it)] : it \in files })
        dir_hash == IF child_hashes = <<>> THEN <<>> ELSE _hash_children(child_hashes)
        dir_node ==
            IF dir_hash = <<>> THEN {}
            ELSE { [tracked_directory_id |-> id,
                    node_hash |-> dir_hash,
                    node_type |-> "directory",
                    relative_path |-> IF rel = "" THEN "." ELSE rel,
                    file_size |-> -1] }
    IN [hash |-> dir_hash,
        nodes |-> UNION { sub(it).nodes : it \in { d \in subdirs : sub(d).hash # <<>> } }
                  \cup file_nodes \cup dir_node]

_load_existing_tree(id) == { n \in merkle_nodes : n.tracked_directory_id = id }

\* The prefix the deletion scan of traverse() tests stored paths against.
DeletedScanPrefix(rel) == IF rel = "" THEN "." ELSE rel

\* existing_tree.get(item_relative) is None or carries another node_hash
IsNewOrChanged(existing_tree, item_relative, file_hash) ==
    \/ ~\E n \in existing_tree : n.relative_path = item_relative
    \/ (CHOOSE n \in existing_tree : n.relative_path = item_relative).node_hash
         # file_hash

\* traverse() of _compare_trees on directory rel: what it appends to added and
\* to deleted, its own level and the levels below.
RECURSIVE traverse(_, _, _)
traverse(root, rel, existing_tree) ==
    LET items == Items(root, rel)
        seen_paths == { ItemRelative(rel, it.name) : it \in items }
        subs == { traverse(root, ItemRelative(rel, it.name), existing_tree) :
                  it \in { d \in items : d.is_dir } }
        added_here ==
            { JoinPath(root, ItemRelative(rel, it.name)) :
              it \in { f \in items :
                        /\ ~f.is_dir
                        /\ IsNewOrChanged(existing_tree, ItemRelative(rel, f.name),
                             compute_file_hash(JoinPath(root, ItemRelative(rel, f.name)))) } }
        deleted_here ==
            { n.relative_path :
              n \in { e \in existing_tree :
                        /\ StartsWith(e.relative_path, DeletedScanPrefix(rel))
                        /\ e.relative_path \notin seen_paths } }
    IN [added |-> added_here \cup UNION { s.added : s \in subs },
        deleted |-> deleted_here \cup UNION { s.deleted : s \in subs }]

_compare_trees(root, existing_tree) == traverse(root, "", existing_tree)

\* _initial_sync: every file node of the fresh tree is added.
InitialAdded(root, nodes) ==
    { JoinPath(root, n.relative_path) : n \in { m \in nodes : m.node_type = "file" } }

\* MerkleSyncStrategy.sync on tracked row td: the SyncResult it returns.
MerkleResult(td) ==
    LET root == Resolve(td.path)
        existing_tree == _load_existing_tree(td.id)
        cmp == _compare_trees(root, existing_tree)
        built == _build_merkle_tree(root, "", td.id)
    IN IF root \notin dirs
       THEN MissingDirResult(td, "merkle")
       ELSE [op |-> "sync", dir |-> td.id, strategy_used |-> "merkle",
             ok |-> TRUE,
             added |-> IF existing_tree = {} THEN InitialAdded(root, built.nodes)
                       ELSE cmp.added,
             modified |-> {},
             deleted |-> IF existing_tree = {} THEN {} ELSE cmp.deleted,
             unchanged |-> 0,
             errors |-> 0,
             scanned |-> scan_directory(root),
             stored |-> existing_tree,
             clean |-> <<td.id, "merkle">> \in synced_clean]

\* _initial_sync / _rebuild_tree: the node table afterwards (delete all, insert all).
MerkleRows(td) ==
    LET root == Resolve(td.path) IN
    IF root \notin dirs THEN merkle_nodes
    ELSE (merkle_nodes \ _load_existing_tree(td.id))
         \cup _build_merkle_tree(root, "", td.id).nodes

\* MerkleSyncStrategy.sync as one operation on directory id. The first sync
\* (_initial_sync) commits the tree and leaves last_synced_at alone.
MerkleSync(id) ==
    /\ \E td \in tracked :
        /\ td.id = id
        /\ td.sync_strategy = "merkle"
        /\ LET res == MerkleResult(td) IN
           /\ last' = res
           /\ merkle_nodes' = MerkleRows(td)
           /\ tracked' = IF res.ok /\ _load_existing_tree(id) # {}
                         THEN PutTracked(tracked, MarkSynced(td))
                         ELSE tracked
           /\ synced_clean' = IF res.ok
                              THEN synced_clean \cup {<<id, "merkle">>}
                              ELSE synced_clean
    /\ UNCHANGED <<now, fs, dirs, snapshots>>
    /\ UNCHANGED <<ingestVars, schedVars>>

(***************************************************************************)
(* The registry: add_tracked_directory.                                    *)
(***************************************************************************)
\* core/config.py: ALLOWED_DIRECTORY_PREFIXES is empty unless configured.
ALLOWED_DIRECTORY_PREFIXES == {}

\* _validate_directory: TRUE when it raises nothing.
_validate_directory(dir_path) ==
    /\ dir_path \in dirs
    /\ \/ ALLOWED_DIRECTORY_PREFIXES = {}
       \/ \E prefix \in ALLOWED_DIRECTORY_PREFIXES : StartsWith(dir_path, prefix)

\* The row add_tracked_directory returns for an already registered path.
UpdatedRow(existing, strategy, interval) ==
    [existing EXCEPT !.is_active = TRUE, !.sync_strategy = strategy,
                     !.sync_interval_seconds = interval]

\* The row add_tracked_directory inserts for a new path.
NewRow(dir_path, strategy, interval) ==
    [id |-> NextId(tracked), path |-> dir_path, sync_strategy |-> strategy,
     is_active |-> TRUE, last_synced_at |-> NullTime, last_error |-> NullError,
     sync_interval_seconds |-> interval]

\* Mutant of UpsertRow: a row is inserted whether or not the path is known.
UpsertRow_AlwaysInsert(dir_path, strategy, interval) ==
    NewRow(dir_path, strategy, interval)

\* The row add_tracked_directory commits and returns.
UpsertRow(dir_path, strategy, interval) ==
    IF \E r \in tracked : r.path = dir_path
    THEN UpdatedRow(CHOOSE r \in tracked : r.path = dir_path, strategy, interval)
    ELSE NewRow(dir_path, strategy, interval)

add_tracked_directory(directory_path, strategy, interval) ==
    LET dir_path == Resolve(directory_path) IN
    /\ IF _validate_directory(dir_path)
       THEN LET row == UpsertRow(dir_path, strategy, interval) IN
            /\ row.id <= MaxId
            /\ tracked' = PutTracked(tracked, row)
            /\ last' = [op |-> "add", ok |-> TRUE, row |-> row,
                        directory_path |-> directory_path,
                        strategy |-> strategy, interval |-> interval,
                        existed |-> \E r \in tracked : r.path = dir_path,
                        before |-> tracked]
       ELSE /\ tracked' = tracked
            /\ last' = [op |-> "add", ok |-> FALSE,
                        directory_path |-> directory_path, before |-> tracked]
    /\ UNCHANGED <<now, fs, dirs, snapshots, merkle_nodes, synced_clean>>
    /\ UNCHANGED <<ingestVars, schedVars>>

(***************************************************************************)
(* The environment: files are written and removed.                         *)
(***************************************************************************)
\* The tracked directories a change of file p lies under.
DirsOver(p) == { <<r.id, st>> : r \in { x \in tracked :
                     StartsWith(p, Resolve(x.path) \o "/") },
                                 st \in {"snapshot", "merkle"} }

\* A file is created or overwritten with content c and mtime m.
WriteFile(p, c, m) ==
    /\ fs[p] # [content |-> c, mtime |-> m]
    /\ fs' = [fs EXCEPT ![p] = [content |-> c, mtime |-> m]]
    /\ synced_clean' = synced_clean \ DirsOver(p)
    /\ last' = [op |-> "env"]
    /\ UNCHANGED <<now, dirs, tracked, snapshots, merkle_nodes>>
    /\ UNCHANGED <<ingestVars, schedVars>>

\* A file is removed.
\* The directory d is removed with all that is in it.
RemoveDir(d) ==
    /\ d \in dirs
    /\ dirs' = dirs \ { d }
    /\ fs' = [p \in AllFiles |-> IF StartsWith(p, d \o "/") THEN NoFile
                                 ELSE fs[p]]
    /\ synced_clean' = { e \in synced_clean :
                           \A r \in tracked : r.id = e[1] => Resolve(r.path) # d }
    /\ last' = [op |-> "env"]
    /\ UNCHANGED <<now, tracked, snapshots, merkle_nodes>>
    /\ UNCHANGED <<ingestVars, schedVars>>

\* The directory d is created, empty.
MakeDir(d) ==
    /\ d \notin dirs
    /\ dirs' = dirs \cup { d }
    /\ last' = [op |-> "env"]
    /\ UNCHANGED <<now, fs, tracked, snapshots, merkle_nodes, synced_clean>>
    /\ UNCHANGED <<ingestVars, schedVars>>

DeleteFile(p) ==
    /\ Exists(p)
    /\ fs' = [fs EXCEPT ![p] = NoFile]
    /\ synced_clean' = synced_clean \ DirsOver(p)
    /\ last' = [op |-> "env"]
    /\ UNCHANGED <<now, dirs, tracked, snapshots, merkle_nodes>>
    /\ UNCHANGED <<ingestVars, schedVars>>

(***************************************************************************)
(* Images, embeddings, cluster assignments and the vector store.           *)
(***************************************************************************)
\* embedding_id of an Image that has no Embedding (NULL).
NullId == 0


\* The tables and the collection the ingestion code reads and writes.
Db ==
    [images |-> images, embeddings |-> embeddings,
     assignments |-> assignments, vector_store |-> vector_store]

\* The vector the embedder returns for a file: a function of its bytes.
EmbedVector(c) == [of |-> c]

\* sorted(image_paths): the order of pathlib paths, on the paths of the model.
SortedPaths ==
    << "/p/a.jpg", "/p/b.jpg", "/p/s/b.jpg", "/p/s/t/c.jpg", "/pq/a.jpg" >>

\* The order in which the Merkle traversal meets files: the subdirectories of
\* a directory come before its files, each group sorted by name.
MerkleOrder ==
    << "/p/s/t/c.jpg", "/p/s/b.jpg", "/p/a.jpg", "/p/b.jpg", "/pq/a.jpg" >>

\* The members of S as a list in the given order.
InOrder(S, order) == SelectSeq(order, LAMBDA x : x \in S)

Range(seq) == { seq[i] : i \in 1..Len(seq) }

\* select(Image).where(Image.file_hash == file_hash)
ExistingByHash(imgs, h) == { im \in imgs : im.file_hash = h }

\* The sub-batches embed_images_with_progress cuts n paths into.
BatchIndices(n, batch_size) ==
    IF n = 0 THEN {} ELSE 0..((n - 1) \div batch_size)

\* embed_images_with_progress: the paths whose embedding is not None, given
\* the sub-batches on which the embedder raised.
embed_images_with_progress(image_paths, batch_size, failed) ==
    LET keep == { i \in 1..Len(image_paths) : ((i - 1) \div batch_size) \notin failed }
        RECURSIVE Pick(_)
        Pick(i) == IF i > Len(image_paths) THEN <<>>
                   ELSE IF i \in keep THEN <<image_paths[i]>> \o Pick(i + 1)
                   ELSE Pick(i + 1)
    IN Pick(1)

\* save_ingested_images: one Embedding row, one Image row and one vector-store
\* entry per file, in list order.
RECURSIVE save_ingested_images(_, _)
save_ingested_images(thumbnails_data, db) ==
    IF thumbnails_data = <<>> THEN db
    ELSE LET p == Head(thumbnails_data)
             embedding == [id |-> NextId(db.embeddings),
                           vector |-> EmbedVector(fs[p].content)]
             image == [id |-> NextId(db.images),
                       file_hash |-> compute_file_hash(p),
                       file_path |-> p,
                       embedding_id |-> embedding.id,
                       embedding_status |-> "completed"]
         IN save_ingested_images(Tail(thumbnails_data),
              [db EXCEPT !.images = @ \cup {image},
                         !.embeddings = @ \cup {embedding},
                         !.vector_store = @ \cup
                             {[id |-> image.id, vector |-> embedding.vector]}])

\* The parameters save_ingested_images declares.
save_ingested_images_params ==
    { "session", "thumbnails_data", "embeddings", "vector_store" }

\* The parameters SyncStrategy.sync declares.
sync_params == { "self", "tracked_dir", "session" }

\* Python raises TypeError on a call that passes a keyword the callee does
\* not declare; the callee's body does not run.
RaisesTypeError(keywords, params) == keywords \ params # {}

\* process_directory_for_ingestion, the filter loop: the first path of every
\* content hash that has no Image yet.
RECURSIVE NewImagesData(_, _, _)
NewImagesData(image_paths, imgs, seen_hashes) ==
    IF image_paths = <<>> THEN <<>>
    ELSE LET p == Head(image_paths)
             h == compute_file_hash(p)
         IN IF h \in seen_hashes \/ ExistingByHash(imgs, h) # {}
            THEN NewImagesData(Tail(image_paths), imgs, seen_hashes)
            ELSE <<p>> \o NewImagesData(Tail(image_paths), imgs,
                                        seen_hashes \cup {h})

\* process_directory_for_ingestion on a directory, the embedder raising on
\* the sub-batches in failed.
process_directory_for_ingestion(directory_path, failed) ==
    /\ directory_path \in dirs
    /\ LET image_paths == InOrder(scan_directory(directory_path), SortedPaths)
           new_images_data == NewImagesData(image_paths, images, {})
           valid == embed_images_with_progress(new_images_data, 12, failed)
           db == save_ingested_images(valid, Db)
       IN /\ failed \subseteq BatchIndices(Len(new_images_data), 12)
          /\ \A r \in db.images \cup db.embeddings : r.id <= MaxId
          /\ images' = db.images
          /\ embeddings' = db.embeddings
          /\ vector_store' = db.vector_store
          /\ last' = [op |-> "ingest", directory_path |-> directory_path,
                      embedded |-> Range(new_images_data),
                      saved |-> Range(valid), before |-> Db]
    /\ UNCHANGED <<now, fs, dirs, tracked, snapshots, merkle_nodes,
                   assignments, synced_clean>>
    /\ UNCHANGED schedVars

\* A clustering run gives an image its ClusterAssignment row.
AssignCluster(image_id) ==
    /\ \E im \in images : im.id = image_id
    /\ ~\E a \in assignments : a.image_id = image_id
    /\ assignments' = assignments \cup {[image_id |-> image_id]}
    /\ last' = [op |-> "env"]
    /\ UNCHANGED <<now, fs, dirs, tracked, snapshots, merkle_nodes, images,
                   embeddings, vector_store, synced_clean>>
    /\ UNCHANGED schedVars

(***************************************************************************)
(* DirectorySyncService: one sync-and-ingest pass (sync_directory).        *)
(***************************************************************************)
\* str(Path(tracked_dir.path) / rel_path)
AbsPath(td, rel_path) == JoinPath(td.path, rel_path)

\* Mutant of MatchDeleted: an image matches when its path ends in the
\* deleted relative path.
MatchDeleted_BySuffix(im, td, deleted) ==
    \E rel \in deleted :
        /\ Len(rel) + 1 <= Len(im.file_path)
        /\ SubSeq(im.file_path, Len(im.file_path) - Len(rel), Len(im.file_path))
             = "/" \o rel

\* select(Image).where(Image.file_path == abs_path), over the deleted paths
MatchDeleted(im, td, deleted) ==
    \E rel \in deleted : im.file_path = AbsPath(td, rel)

\* _handle_deleted_files: the vector-store entry, the cluster assignments,
\* the Image and its Embedding go, for every image a deleted path names.
_handle_deleted_files(td, deleted, db) ==
    LET gone == { im \in db.images : MatchDeleted(im, td, deleted) }
        image_ids == { im.id : im \in gone }
        embedding_ids == { im.embedding_id : im \in gone } \ {NullId}
    IN [images |-> db.images \ gone,
        embeddings |-> { e \in db.embeddings : e.id \notin embedding_ids },
        assignments |-> { a \in db.assignments : a.image_id \notin image_ids },
        vector_store |-> { v \in db.vector_store : v.id \notin image_ids }]

\* Mutant of IndexLoop: the lookup by content hash is skipped, every file is
\* queued for embedding.
RECURSIVE IndexLoop_NoLookup(_, _, _)
IndexLoop_NoLookup(file_paths, imgs, thumbnails_data) ==
    IF file_paths = <<>>
    THEN [images |-> imgs, thumbnails_data |-> thumbnails_data]
    ELSE IndexLoop_NoLookup(Tail(file_paths), imgs,
                            IF /\ Exists(Head(file_paths))
                               /\ ~Undecodable(Head(file_paths))
                            THEN Append(thumbnails_data, Head(file_paths))
                            ELSE thumbnails_data)

\* The per-file loop of _index_files: a file whose content has an Image moves
\* that Image's file_path to itself, a file whose thumbnail cannot be made
\* is left out (the except branch), any other file is queued for embedding.
RECURSIVE IndexLoop(_, _, _)
IndexLoop(file_paths, imgs, thumbnails_data) ==
    IF file_paths = <<>>
    THEN [images |-> imgs, thumbnails_data |-> thumbnails_data]
    ELSE LET img_path == Head(file_paths)
             file_hash == compute_file_hash(img_path)
         IN IF ~Exists(img_path)
            THEN IndexLoop(Tail(file_paths), imgs, thumbnails_data)
            ELSE IF ExistingByHash(imgs, file_hash) # {}
            THEN IndexLoop(Tail(file_paths),
                           { IF im.file_hash = file_hash
                             THEN [im EXCEPT !.file_path = img_path]
                             ELSE im : im \in imgs },
                           thumbnails_data)
            ELSE IF Undecodable(img_path)
            THEN IndexLoop(Tail(file_paths), imgs, thumbnails_data)
            ELSE IndexLoop(Tail(file_paths), imgs,
                           Append(thumbnails_data, img_path))

\* The files on which the per-file loop of _index_files took its except
\* branch, in order: each sets tracked_dir.last_error on the session's row.
IndexErrors(file_paths, imgs) ==
    SelectSeq(file_paths,
              LAMBDA img_path :
                  /\ Exists(img_path)
                  /\ ExistingByHash(imgs, compute_file_hash(img_path)) = {}
                  /\ Undecodable(img_path))

\* tracked_dir.last_error = f"Error indexing {img_path_str}: {e}", for each
\* file that raised: the last one stays.
IndexErrorRow(td, errors) ==
    IF errors = <<>> THEN td
    ELSE [td EXCEPT !.last_error = "Error indexing " \o errors[Len(errors)]]

\* _index_files: the session's tables afterwards, the paths submitted to the
\* embedder, the files whose processing raised, and whether the call of
\* save_ingested_images raised.
_index_files(file_paths, db, failed) ==
    LET loop == IndexLoop(file_paths, db.images, <<>>)
        db1 == [db EXCEPT !.images = loop.images]
        valid_data == embed_images_with_progress(loop.thumbnails_data,
                                                 _batch_size, failed)
        raised == /\ valid_data # <<>>
                  /\ RaisesTypeError({"model_name"}, save_ingested_images_params)
    IN [db |-> IF valid_data = <<>> \/ raised THEN db1
               ELSE save_ingested_images(valid_data, db1),
        embedded |-> Range(loop.thumbnails_data),
        errors |-> IndexErrors(file_paths, db.images),
        raised |-> raised]

\* The order in which a strategy lists the files it found.
StrategyOrder(strategy) ==
    IF strategy = "merkle" THEN MerkleOrder ELSE SortedPaths

\* get_sync_strategy(...).sync: the SyncResult.
StrategyResult(td) ==
    IF td.sync_strategy = "merkle" THEN MerkleResult(td) ELSE SnapshotResult(td)

\* The tracked row as the strategy's own commit leaves it.
StrategyRow(td, res) ==
    IF /\ res.ok
       /\ (td.sync_strategy = "merkle" => _load_existing_tree(td.id) # {})
    THEN MarkSynced(td)
    ELSE td

\* _process_sync_changes: deletions first, then added + modified are indexed,
\* then the sync metadata is set and the session committed. An exception
\* rolls the session back; calls already made on the vector store stay.
_process_sync_changes(td, res, failed) ==
    LET after_del == IF res.deleted # {}
                     THEN _handle_deleted_files(td, res.deleted, Db)
                     ELSE Db
        files_to_index ==
            InOrder(res.added, StrategyOrder(res.strategy_used))
            \o InOrder(res.modified, StrategyOrder(res.strategy_used))
        idx == IF files_to_index # <<>>
               THEN _index_files(files_to_index, after_del, failed)
               ELSE [db |-> after_del, embedded |-> {}, errors |-> <<>>,
                     raised |-> FALSE]
    IN [raised |-> idx.raised,
        index_errors |-> idx.errors,
        after_del |-> after_del,
        embedded |-> idx.embedded,
        db |-> IF idx.raised
               THEN [Db EXCEPT !.vector_store = after_del.vector_store]
               ELSE idx.db,
        row |-> IF idx.raised THEN td
                ELSE [IndexErrorRow(td, idx.errors) EXCEPT
                         !.last_synced_at = now,
                         !.last_error = NullError]]

\* sync_directory: the strategy's sync, committed, then _process_sync_changes.
sync_directory(directory_id, failed) ==
    IF \E td \in tracked : td.id = directory_id
    THEN LET td == CHOOSE r \in tracked : r.id = directory_id
             res == StrategyResult(td)
             out == _process_sync_changes(StrategyRow(td, res), res, failed)
         IN /\ failed \subseteq BatchIndices(Cardinality(out.embedded), _batch_size)
            /\ snapshots' = IF td.sync_strategy = "merkle" THEN snapshots
                            ELSE SnapshotRows(td)
            /\ merkle_nodes' = IF td.sync_strategy = "merkle" THEN MerkleRows(td)
                               ELSE merkle_nodes
            /\ tracked' = PutTracked(tracked, out.row)
            /\ images' = out.db.images
            /\ embeddings' = out.db.embeddings
            /\ assignments' = out.db.assignments
            /\ vector_store' = out.db.vector_store
            /\ synced_clean' = IF res.ok
                               THEN synced_clean \cup {<<td.id, td.sync_strategy>>}
                               ELSE synced_clean
            /\ last' = [op |-> "pass", found |-> TRUE, dir |-> td.id,
                        root |-> td.path, added |-> res.added,
                        modified |-> res.modified, deleted |-> res.deleted,
                        errors |-> res.errors, raised |-> out.raised,
                        index_errors |-> out.index_errors,
                        before |-> Db, after_del |-> out.after_del,
                        embedded |-> out.embedded]
            /\ UNCHANGED <<now, fs, dirs>>
            /\ UNCHANGED schedVars
    ELSE /\ failed = {}
         /\ last' = [op |-> "pass", found |-> FALSE, dir |-> directory_id]
         /\ UNCHANGED <<now, fs, dirs, tracked, snapshots, merkle_nodes,
                        synced_clean>>
         /\ UNCHANGED <<ingestVars, schedVars>>

(***************************************************************************)
(* The registry: remove_tracked_directory.                                 *)
(***************************************************************************)
UpperCase == "ABCDEFGHIJKLMNOPQRSTUVWXYZ"
LowerCase == "abcdefghijklmnopqrstuvwxyz"

\* SQLite's LIKE compares ASCII letters without regard to case.
Fold(ch) ==
    IF \E i \in 1..Len(UpperCase) : SubSeq(UpperCase, i, i) = ch
    THEN LET i == CHOOSE j \in 1..Len(UpperCase) : SubSeq(UpperCase, j, j) = ch
         IN SubSeq(LowerCase, i, i)
    ELSE ch

\* SQL: s LIKE pattern, "%" for any run of characters, "_" for any one.
RECURSIVE Like(_, _)
Like(s, pattern) ==
    IF Len(pattern) = 0 THEN Len(s) = 0
    ELSE LET c == SubSeq(pattern, 1, 1)
             rest == DropPrefix(pattern, 1)
         IN IF c = "%"
            THEN \E k \in 0..Len(s) : Like(DropPrefix(s, k), rest)
            ELSE /\ Len(s) > 0
                 /\ (c = "_" \/ Fold(c) = Fold(SubSeq(s, 1, 1)))
                 /\ Like(DropPrefix(s, 1), rest)

\* Mutant of LikePattern: the pattern ends without the wildcard.
LikePattern_NoWildcard(path) ==
    IF SubSeq(path, Len(path), Len(path)) = "/" THEN path ELSE path \o "/"

\* f"{dir_path_prefix}%", the prefix being the path with one trailing "/"
LikePattern(path) ==
    (IF SubSeq(path, Len(path), Len(path)) = "/" THEN path ELSE path \o "/")
    \o "%"

\* Everything remove_tracked_directory can touch.
Stored ==
    [tracked |-> tracked, snapshots |-> snapshots,
     merkle_nodes |-> merkle_nodes, db |-> Db]

\* remove_tracked_directory: False for an unknown id; otherwise the images
\* under the path go with their vector-store entries, cluster assignments
\* and embeddings, then the strategy's rows (cleanup), then the directory
\* row, whose delete cascades to its snapshot and Merkle rows.
remove_tracked_directory(directory_id) ==
    IF \E td \in tracked : td.id = directory_id
    THEN LET tracked_dir == CHOOSE r \in tracked : r.id = directory_id
             imgs == { im \in images :
                         Like(im.file_path, LikePattern(tracked_dir.path)) }
             image_ids == { im.id : im \in imgs }
             embedding_ids == { im.embedding_id : im \in imgs } \ {NullId}
         IN /\ vector_store' = { v \in vector_store : v.id \notin image_ids }
            /\ assignments' = { a \in assignments : a.image_id \notin image_ids }
            /\ images' = images \ imgs
            /\ embeddings' = { e \in embeddings : e.id \notin embedding_ids }
            /\ snapshots' = { s \in snapshots :
                                s.tracked_directory_id # directory_id }
            /\ merkle_nodes' = { n \in merkle_nodes :
                                   n.tracked_directory_id # directory_id }
            /\ tracked' = tracked \ {tracked_dir}
            /\ synced_clean' = { x \in synced_clean : x[1] # directory_id }
            /\ last' = [op |-> "remove", ok |-> TRUE, id |-> directory_id,
                        path |-> tracked_dir.path, before |-> Stored,
                        vs_issued |-> image_ids]
            /\ UNCHANGED <<now, fs, dirs>>
            /\ UNCHANGED schedVars
    ELSE /\ last' = [op |-> "remove", ok |-> FALSE, id |-> directory_id,
                     before |-> Stored]
         /\ UNCHANGED <<now, fs, dirs, tracked, snapshots, merkle_nodes,
                        synced_clean>>
         /\ UNCHANGED <<ingestVars, schedVars>>

(***************************************************************************)
(* Settings and the background scheduler (_sync_loop).                     *)
(***************************************************************************)
Digits == "0123456789"

\* int(s) on a string of decimal digits
RECURSIVE ParseInt(_)
ParseInt(s) ==
    IF Len(s) = 0 THEN 0
    ELSE ParseInt(SubSeq(s, 1, Len(s) - 1)) * 10
         + (CHOOSE d \in 0..9 :
              SubSeq(Digits, d + 1, d + 1) = SubSeq(s, Len(s), Len(s)))

\* update_settings: the frequency string in seconds, 3600 for an unknown unit.
ParseFrequency(sync_frequency) ==
    LET unit == SubSeq(sync_frequency, Len(sync_frequency), Len(sync_frequency))
        number == SubSeq(sync_frequency, 1, Len(sync_frequency) - 1)
    IN IF unit = "m" THEN ParseInt(number) * 60
       ELSE IF unit = "h" THEN ParseInt(number) * 3600
       ELSE IF unit = "d" THEN ParseInt(number) * 86400
       ELSE 3600

\* ext if ext.startswith('.') else f".{ext}", over the list
WithDots(image_extensions) ==
    [i \in DOMAIN image_extensions |->
        IF StartsWith(image_extensions[i], ".") THEN image_extensions[i]
        ELSE "." \o image_extensions[i]]

\* DirectorySyncService.update_settings: the flag and the interval are set;
\* batch size, extensions and model are set when the argument is given and
\* truthy (0, the empty list and "" stand for None as well).
ServiceSettings(auto_reindex, sync_frequency, batch_size, image_extensions, embedding_model) ==
    /\ _sync_enabled' = auto_reindex
    /\ _batch_size' = IF batch_size # 0 THEN batch_size ELSE _batch_size
    /\ _image_extensions' = IF image_extensions # <<>>
                            THEN WithDots(image_extensions)
                            ELSE _image_extensions
    /\ _embedding_model' = IF embedding_model # "" THEN embedding_model
                           ELSE _embedding_model
    /\ _sync_interval_seconds' = ParseFrequency(sync_frequency)

\* The request body of the settings endpoint with the schema's defaults for
\* batch size, extensions and model.
SettingsUpdate(auto_reindex, sync_frequency) ==
    [auto_reindex |-> auto_reindex, sync_frequency |-> sync_frequency,
     batch_size |-> 12,
     image_extensions |-> << "jpg", "jpeg", "png", "webp" >>,
     embedding_model |-> "jina-clip-v2"]

\* The settings endpoint: the five fields are saved in the Settings row, then
\* the service's update_settings is called with auto_reindex and
\* sync_frequency, its other parameters left at None.
update_settings(update_data) ==
    /\ settings' = update_data
    /\ ServiceSettings(update_data.auto_reindex, update_data.sync_frequency,
                       0, <<>>, "")
    /\ last' = [op |-> "settings"]
    /\ UNCHANGED <<now, fs, dirs, tracked, snapshots, merkle_nodes,
                   synced_clean, _sync_task, _stop_event, pc, loop_dirs, job_id,
                   jobs, _ingestion_job_service>>
    /\ UNCHANGED ingestVars

\* Time passes: a second or a minute at a time, MaxTime times in all.
Tick(step) ==
    /\ (now \div 60) + (now % 60) < MaxTime
    /\ now' = now + step
    /\ last' = [op |-> "env"]
    /\ UNCHANGED <<fs, dirs, tracked, snapshots, merkle_nodes, synced_clean>>
    /\ UNCHANGED <<ingestVars, schedVars>>

\* Mutant of LoopAlive: a task is never taken to be running.
LoopAlive_Never(task) == FALSE

\* `self._sync_task is not None and not self._sync_task.done()`
LoopAlive(task) == task = "running"

\* Mutant of RemoveAt: the element stays.
RemoveAt_Keep(seq, t) == seq

\* A sequence without its t-th element.
RemoveAt(seq, t) == SubSeq(seq, 1, t - 1) \o SubSeq(seq, t + 1, Len(seq))

\* start_background_sync: nothing while a task runs; otherwise the persisted
\* settings are loaded, the stop event cleared and the loop task created.
start_background_sync ==
    /\ IF LoopAlive(_sync_task)
       THEN UNCHANGED schedVars
       ELSE /\ IF settings = NoSettings
               THEN UNCHANGED <<_sync_enabled, _sync_interval_seconds,
                                loopSettings>>
               ELSE ServiceSettings(settings.auto_reindex,
                                    settings.sync_frequency,
                                    settings.batch_size,
                                    settings.image_extensions,
                                    settings.embedding_model)
            /\ _stop_event' = "clear"
            /\ _sync_task' = "running"
            /\ pc' = Append(pc, "top")
            /\ loop_dirs' = Append(loop_dirs, <<>>)
            /\ job_id' = Append(job_id, 0)
            /\ UNCHANGED <<settings, jobs, _ingestion_job_service>>
    /\ last' = [op |-> "start", was |-> _sync_task, loops |-> Len(pc)]
    /\ UNCHANGED <<now, fs, dirs, tracked, snapshots, merkle_nodes, synced_clean>>
    /\ UNCHANGED ingestVars

\* stop_background_sync: the event is set and the task held in _sync_task
\* cancelled and awaited: CancelledError is raised at the await the loop
\* stands on and the loop leaves; the job of a pass in flight stays as it is.
stop_background_sync ==
    /\ _stop_event' = IF _stop_event = "none" THEN "none" ELSE "set"
    /\ IF _sync_task = "running"
       THEN /\ _sync_task' = "done"
            /\ pc' = RemoveAt(pc, Len(pc))
            /\ loop_dirs' = RemoveAt(loop_dirs, Len(pc))
            /\ job_id' = RemoveAt(job_id, Len(pc))
            /\ last' = [op |-> "stop", at |-> pc[Len(pc)],
                        job |-> job_id[Len(pc)]]
       ELSE /\ UNCHANGED <<_sync_task, pc, loop_dirs, job_id>>
            /\ last' = [op |-> "stop", at |-> "none", job |-> 0]
    /\ UNCHANGED <<now, fs, dirs, tracked, snapshots, merkle_nodes, synced_clean,
                   settings, _sync_enabled, _sync_interval_seconds, loopSettings, jobs,
                   _ingestion_job_service>>
    /\ UNCHANGED ingestVars

\* The rows of a set as a list, by id (the order the select returns them in).
RECURSIVE RowsById(_)
RowsById(rows) ==
    IF rows = {} THEN <<>>
    ELSE LET first == CHOOSE r \in rows : \A x \in rows : r.id <= x.id
         IN <<first>> \o RowsById(rows \ {first})

\* _should_sync_directory_obj: never synced, or the interval has passed; the
\* interval is the directory's unless that is 0, then the service's.
_should_sync_directory_obj(tracked_dir) ==
    \/ tracked_dir.last_synced_at = NullTime
    \/ LET interval == IF tracked_dir.sync_interval_seconds # 0
                       THEN tracked_dir.sync_interval_seconds
                       ELSE _sync_interval_seconds
       IN now >= tracked_dir.last_synced_at + interval

\* _sync_loop of task t, the head of an iteration: the loop ends when the
\* stop event is set; with auto-sync enabled the active directories are
\* loaded.
LoopTop(t) ==
    /\ pc[t] = "top"
    /\ IF _stop_event = "set"
       THEN /\ pc' = RemoveAt(pc, t)
            /\ loop_dirs' = RemoveAt(loop_dirs, t)
            /\ job_id' = RemoveAt(job_id, t)
            /\ _sync_task' = IF t = Len(pc) /\ _sync_task = "running"
                             THEN "done" ELSE _sync_task
            /\ last' = [op |-> "tick", enabled |-> _sync_enabled,
                        loaded |-> <<>>]
       ELSE LET directories == IF _sync_enabled
                               THEN RowsById({ r \in tracked : r.is_active })
                               ELSE <<>>
            IN /\ _sync_task' = _sync_task
               /\ loop_dirs' = [loop_dirs EXCEPT ![t] = directories]
               /\ pc' = [pc EXCEPT ![t] = IF _sync_enabled THEN "for"
                                          ELSE "sleep"]
               /\ job_id' = job_id
               /\ last' = [op |-> "tick", enabled |-> _sync_enabled,
                           loaded |-> directories]
    /\ UNCHANGED <<now, fs, dirs, tracked, snapshots, merkle_nodes, synced_clean,
                   settings, _sync_enabled, _sync_interval_seconds, loopSettings, _stop_event,
                   jobs, _ingestion_job_service>>
    /\ UNCHANGED ingestVars

\* _sync_loop of task t, one turn of the for loop: the next loaded row is
\* looked at; for a due one _sync_with_error_handling_obj is called: it sets
\* up a job and the pass begins; without an ingestion job service
\* create_job_id raises AttributeError before the pass's try block, the
\* loop's handler prints it and the iteration goes to its sleep.
LoopFor(t) ==
    /\ pc[t] = "for"
    /\ IF loop_dirs[t] = <<>> \/ _stop_event = "set"
       THEN /\ pc' = [pc EXCEPT ![t] = "sleep"]
            /\ loop_dirs' = [loop_dirs EXCEPT ![t] = <<>>]
            /\ UNCHANGED <<jobs, job_id>>
            /\ last' = [op |-> "endfor"]
       ELSE LET tracked_dir == Head(loop_dirs[t])
                given == _should_sync_directory_obj(tracked_dir)
                entered == given /\ _ingestion_job_service # "none"
            IN /\ entered => Len(jobs) < MaxJobs
               /\ jobs' = IF entered
                          THEN Append(jobs, [status |-> "processing",
                                             progress |-> 0, total |-> 0,
                                             processed |-> 0, errors |-> <<>>,
                                             directory_path |-> tracked_dir.path])
                          ELSE jobs
               /\ job_id' = IF entered THEN [job_id EXCEPT ![t] = Len(jobs) + 1]
                            ELSE job_id
               /\ pc' = [pc EXCEPT ![t] = IF entered THEN "pass"
                                          ELSE IF given THEN "sleep"
                                          ELSE "for"]
               /\ loop_dirs' = IF entered THEN loop_dirs
                               ELSE IF given THEN [loop_dirs EXCEPT ![t] = <<>>]
                               ELSE [loop_dirs EXCEPT ![t] = Tail(@)]
               /\ last' = [op |-> "eval", task |-> t, row |-> tracked_dir,
                           given |-> given, rest |-> Tail(loop_dirs[t]),
                           call |-> IF entered THEN "entered"
                                    ELSE IF given THEN "AttributeError"
                                    ELSE "none"]
    /\ UNCHANGED <<now, fs, dirs, tracked, snapshots, merkle_nodes, synced_clean,
                   settings, _sync_enabled, _sync_interval_seconds, loopSettings, _sync_task,
                   _stop_event, _ingestion_job_service>>
    /\ UNCHANGED ingestVars

\* asyncio.sleep(CHECK_INTERVAL) of task t returns.
LoopWake(t) ==
    /\ pc[t] = "sleep"
    /\ pc' = [pc EXCEPT ![t] = "top"]
    /\ last' = [op |-> "wake"]
    /\ UNCHANGED <<now, fs, dirs, tracked, snapshots, merkle_nodes, synced_clean,
                   settings, _sync_enabled, _sync_interval_seconds, loopSettings, _sync_task,
                   _stop_event, loop_dirs, jobs, job_id, _ingestion_job_service>>
    /\ UNCHANGED ingestVars

\* The job record after `status = "error"; errors.append(str(e))`.
JobFailed(job, message) ==
    [job EXCEPT !.status = "error", !.errors = Append(@, message)]

\* _sync_with_error_handling_obj of task t after the job is set up: the row
\* is fetched again (gone: return, the job stays as it is); strategy.sync is
\* called with the keyword extensions; any exception marks the job "error"
\* and is stored in the row's last_error.
LoopPass(t, failed) ==
    /\ pc[t] = "pass"
    /\ LET tracked_dir == Head(loop_dirs[t])
           job == job_id[t]
       IN IF ~ \E r \in tracked : r.id = tracked_dir.id
          THEN /\ failed = {}
               /\ last' = [op |-> "scheduled", task |-> t, dir |-> tracked_dir.id,
                           rest |-> Tail(loop_dirs[t]),
                           job |-> job, outcome |-> "missing",
                           never_synced |-> FALSE, synced |-> FALSE]
               /\ UNCHANGED <<tracked, snapshots, merkle_nodes, synced_clean,
                              jobs>>
               /\ UNCHANGED ingestVars
          ELSE LET db_tracked_dir == CHOOSE r \in tracked : r.id = tracked_dir.id
               IN IF RaisesTypeError({ "extensions" }, sync_params)
                  THEN /\ failed = {}
                       /\ jobs' = [jobs EXCEPT ![job] = JobFailed(@, "TypeError")]
                       /\ tracked' = PutTracked(tracked,
                              [db_tracked_dir EXCEPT !.last_error = "TypeError"])
                       /\ last' = [op |-> "scheduled", task |-> t, dir |-> tracked_dir.id,
                           rest |-> Tail(loop_dirs[t]),
                                   job |-> job, outcome |-> "error",
                                   never_synced |->
                                       db_tracked_dir.last_synced_at = NullTime,
                                   synced |-> FALSE]
                       /\ UNCHANGED <<snapshots, merkle_nodes, synced_clean>>
                       /\ UNCHANGED ingestVars
                  ELSE LET res == StrategyResult(db_tracked_dir)
                           out == _process_sync_changes(
                                      StrategyRow(db_tracked_dir, res), res, failed)
                       IN /\ failed \subseteq
                                BatchIndices(Cardinality(out.embedded), _batch_size)
                          /\ snapshots' =
                                IF db_tracked_dir.sync_strategy = "merkle"
                                THEN snapshots ELSE SnapshotRows(db_tracked_dir)
                          /\ merkle_nodes' =
                                IF db_tracked_dir.sync_strategy = "merkle"
                                THEN MerkleRows(db_tracked_dir) ELSE merkle_nodes
                          /\ tracked' = PutTracked(tracked,
                                IF out.raised
                                THEN [out.row EXCEPT !.last_error = "TypeError"]
                                ELSE out.row)
                          /\ images' = out.db.images
                          /\ embeddings' = out.db.embeddings
                          /\ assignments' = out.db.assignments
                          /\ vector_store' = out.db.vector_store
                          /\ synced_clean' =
                                IF res.ok
                                THEN synced_clean \cup
                                     {<<db_tracked_dir.id,
                                        db_tracked_dir.sync_strategy>>}
                                ELSE synced_clean
                          /\ jobs' = IF out.raised
                                     THEN [jobs EXCEPT
                                             ![job] = JobFailed(@, "TypeError")]
                                     ELSE [jobs EXCEPT
                                             ![job].status = "completed",
                                             ![job].progress = 100]
                          /\ last' = [op |-> "scheduled", task |-> t, dir |-> tracked_dir.id,
                           rest |-> Tail(loop_dirs[t]),
                                      job |-> job,
                                      outcome |-> IF out.raised THEN "error"
                                                  ELSE "completed",
                                      never_synced |->
                                          db_tracked_dir.last_synced_at = NullTime,
                                      result |-> res,
                                      synced |-> TRUE]
    /\ loop_dirs' = [loop_dirs EXCEPT ![t] = Tail(@)]
    /\ pc' = [pc EXCEPT ![t] = "for"]
    /\ job_id' = [job_id EXCEPT ![t] = 0]
    /\ UNCHANGED <<now, fs, dirs, settings, _sync_enabled,
                   _sync_interval_seconds, loopSettings, _sync_task, _stop_event,
                   _ingestion_job_service>>

(***************************************************************************)
(* The directory scan job (DirectoryService.process_directory_job).        *)
(***************************************************************************)
Min(a, b) == IF a <= b THEN a ELSE b

\* EmbeddingProgress.progress, in percent: processed / total, 1.0 when total
\* is 0.
Percent(processed, total) ==
    IF total > 0 THEN (processed * 100) \div total ELSE 100

\* The message embed_images_with_progress keeps for a failed sub-batch.
BatchMessage(b) == "Batch " \o SubSeq(Digits, (b % 10) + 1, (b % 10) + 1)

\* The messages of the failed sub-batches among the first n, in order.
RECURSIVE BatchErrors(_, _)
BatchErrors(n, failed) ==
    IF n = 0 THEN <<>>
    ELSE BatchErrors(n - 1, failed)
         \o (IF (n - 1) \in failed THEN << BatchMessage(n - 1) >> ELSE <<>>)

\* errors[-10:]
LastTen(seq) == SubSeq(seq, Max({ 1, Len(seq) - 9 }), Len(seq))

\* embed_images_with_progress, the progress callback: after each sub-batch,
\* failed or not, the job record is updated with the tracker's total,
\* processed, progress and last errors. The records it leaves, from
\* sub-batch b on.
RECURSIVE EmbedUpdates(_, _, _, _, _)
EmbedUpdates(job, n, batch_size, failed, b) ==
    IF b * batch_size >= n THEN <<>>
    ELSE LET processed == Min((b + 1) * batch_size, n)
             next == [job EXCEPT !.total = n,
                                 !.processed = processed,
                                 !.progress = Percent(processed, n),
                                 !.errors = LastTen(BatchErrors(b + 1, failed))]
         IN << next >> \o EmbedUpdates(next, n, batch_size, failed, b + 1)

\* The record process_directory_job starts from.
ProcessingJob ==
    [status |-> "processing", progress |-> 0, total |-> 0, processed |-> 0,
     errors |-> <<>>]

JobCompleted(job) == [job EXCEPT !.status = "completed", !.progress = 100]

\* process_directory_job, the job record after each of its updates: total
\* is the number of files scanned, processed counts the files filtered out
\* (hash seen in this scan, or Image present), then the embedding's progress
\* callback overwrites total, processed, progress and errors, the embedding
\* errors are appended, and the job is completed; a missing directory ends
\* the job in error.
process_directory_job_updates(directory_path, failed) ==
    IF directory_path \notin dirs
    THEN << ProcessingJob,
            [ProcessingJob EXCEPT !.status = "error",
                                  !.errors = << "FileNotFoundError" >>] >>
    ELSE LET image_paths == InOrder(scan_directory(directory_path), SortedPaths)
             total == Len(image_paths)
             new_images_data == NewImagesData(image_paths, images, {})
             skipped == total - Len(new_images_data)
             counting == [ProcessingJob EXCEPT !.total = total]
             counted == [k \in 1..skipped |-> [counting EXCEPT !.processed = k]]
             filtered == IF skipped = 0 THEN counting ELSE counted[skipped]
             embed == EmbedUpdates(filtered, Len(new_images_data), 12, failed, 0)
             embedded == [embed[Len(embed)] EXCEPT
                            !.errors = @ \o BatchErrors(Len(embed), failed)]
         IN IF total = 0 THEN << ProcessingJob, JobCompleted(ProcessingJob) >>
            ELSE IF new_images_data = <<>>
            THEN << ProcessingJob, counting >> \o counted
                 \o << JobCompleted(filtered) >>
            ELSE << ProcessingJob, counting >> \o counted \o embed
                 \o << embedded, JobCompleted(embedded) >>

\* process_directory_job on a directory, the embedder raising on the
\* sub-batches in failed: the new files that were embedded are saved, the
\* job record goes through its updates.
process_directory_job(directory_path, failed) ==
    /\ Len(jobs) < MaxJobs
    /\ LET image_paths == InOrder(scan_directory(directory_path), SortedPaths)
           new_images_data == IF directory_path \in dirs
                              THEN NewImagesData(image_paths, images, {})
                              ELSE <<>>
           valid == embed_images_with_progress(new_images_data, 12, failed)
           db == save_ingested_images(valid, Db)
           updates == process_directory_job_updates(directory_path, failed)
       IN /\ failed \subseteq BatchIndices(Len(new_images_data), 12)
          /\ \A r \in db.images \cup db.embeddings : r.id <= MaxId
          /\ images' = db.images
          /\ embeddings' = db.embeddings
          /\ vector_store' = db.vector_store
          /\ jobs' = Append(jobs, updates[Len(updates)])
          /\ last' = [op |-> "job", directory_path |-> directory_path,
                      job |-> Len(jobs) + 1, updates |-> updates]
    /\ UNCHANGED <<now, fs, dirs, tracked, snapshots, merkle_nodes,
                   assignments, synced_clean, settings, _ingestion_job_service,
                   _sync_enabled, _sync_interval_seconds, loopSettings, _sync_task,
                   _stop_event, pc, loop_dirs, job_id>>

(***************************************************************************)
(* Embedding in sub-batches and the pairing of files with vectors, on the  *)
(* three ingestion paths. Files are numbered in the order they are handed  *)
(* to the embedder; the vector of file k is VectorOf(k).                   *)
(***************************************************************************)
NoVector == [of |-> 0]
VectorOf(k) == [of |-> k]

\* services/embedding.py, embed_images_with_progress: one entry per path,
\* None for the paths of a sub-batch that raised.
EmbedAligned(image_paths, batch_size, failed) ==
    [i \in DOMAIN image_paths |->
        IF ((i - 1) \div batch_size) \in failed THEN NoVector
        ELSE VectorOf(image_paths[i])]

\* app/embeddings.py, embed_images_with_progress: the same list with the
\* None entries filtered out before it is returned.
EmbedFiltered(image_paths, batch_size, failed) ==
    SelectSeq(EmbedAligned(image_paths, batch_size, failed),
              LAMBDA emb : emb # NoVector)

\* [(thumbnails_data[i], emb) for i, emb in enumerate(embeddings)
\*  if emb is not None]
RECURSIVE ValidData(_, _, _)
ValidData(thumbnails_data, embs, i) ==
    IF i > Len(embs) THEN <<>>
    ELSE (IF embs[i] # NoVector
          THEN << [file |-> thumbnails_data[i], vector |-> embs[i]] >>
          ELSE <<>>)
         \o ValidData(thumbnails_data, embs, i + 1)

\* The save loop of the directory endpoint's job: thumbnails_to_embed[i] is
\* stored with embs[i], up to the end of the shorter list.
LegacySaved(thumbnails_to_embed, embs) ==
    [i \in 1..Min(Len(thumbnails_to_embed), Len(embs)) |->
        [file |-> thumbnails_to_embed[i], vector |-> embs[i]]]

\* One batch of n new files goes through a path, the embedder raising on
\* the sub-batches in failed: "sync" is _index_files, "job" is
\* DirectoryService.process_directory_job, "legacy" is process_directory_job
\* of the directory endpoint. The pairs the path hands on to be stored.
EmbedBatch(path, n, failed) ==
    /\ failed \subseteq BatchIndices(n, 12)
    /\ LET files == [k \in 1..n |-> k]
           batch_size == IF path = "sync" THEN _batch_size ELSE 12
       IN last' = [op |-> "batch", path |-> path, files |-> n,
                   failed |-> failed,
                   saved |->
                      IF path = "legacy"
                      THEN LegacySaved(files,
                               EmbedFiltered(files, batch_size, failed))
                      ELSE ValidData(files,
                               EmbedAligned(files, batch_size, failed), 1)]
    /\ UNCHANGED <<now, fs, dirs, tracked, snapshots, merkle_nodes,
                   synced_clean>>
    /\ UNCHANGED <<ingestVars, schedVars>>

(***************************************************************************)
(* The embedding queue (app/database.py): per-image retry bookkeeping on   *)
(* Image rows as app/models.py declares them.                              *)
(***************************************************************************)
MAX_RETRY_COUNT == 3
RETRY_BASE_DELAY_SECONDS == 60

\* 2 ** n
RECURSIVE Pow2(_)
Pow2(n) == IF n = 0 THEN 1 ELSE 2 * Pow2(n - 1)

\* Mutant of calculate_next_retry_at: the delay does not grow.
calculate_next_retry_at_Flat(retry_count) == now + RETRY_BASE_DELAY_SECONDS

\* calculate_next_retry_at: utcnow() + RETRY_BASE_DELAY_SECONDS * 2 ** retry_count
calculate_next_retry_at(retry_count) ==
    now + RETRY_BASE_DELAY_SECONDS * Pow2(retry_count)

\* update(Image).where(Image.id == image_id).values(...)
UpdateImage(image_id, Values(_)) ==
    { IF im.id = image_id THEN Values(im) ELSE im : im \in images }

\* What every queue operation leaves alone.
QueueUnchanged ==
    /\ UNCHANGED <<now, fs, dirs, tracked, snapshots, merkle_nodes,
                   embeddings, assignments, vector_store, synced_clean>>
    /\ UNCHANGED schedVars

\* create_image_with_pending_status: a new row, pending, retry_count 0. The
\* unique index on file_hash refuses a second row of the same content.
create_image_with_pending_status(file_hash, file_path) ==
    /\ ExistingByHash(images, file_hash) = {}
    /\ NextId(images) <= MaxId
    /\ images' = images \cup
          {[id |-> NextId(images), file_hash |-> file_hash,
            file_path |-> file_path, embedding_id |-> NullId,
            embedding_status |-> "pending", error_message |-> NullError,
            retry_count |-> 0, next_retry_at |-> NullTime]}
    /\ last' = [op |-> "queue"]
    /\ QueueUnchanged

\* mark_embedding_processing
mark_embedding_processing(image_id) ==
    /\ images' = UpdateImage(image_id,
          LAMBDA im : [im EXCEPT !.embedding_status = "processing"])
    /\ last' = [op |-> "queue"]
    /\ QueueUnchanged

\* mark_embedding_complete
mark_embedding_complete(image_id, embedding_id) ==
    /\ images' = UpdateImage(image_id,
          LAMBDA im : [im EXCEPT !.embedding_status = "completed",
                                 !.embedding_id = embedding_id,
                                 !.error_message = NullError])
    /\ last' = [op |-> "queue"]
    /\ QueueUnchanged

\* mark_embedding_failed_permanent: a failure that is not retryable.
mark_embedding_failed_permanent(image_id, error_message) ==
    /\ images' = UpdateImage(image_id,
          LAMBDA im : [im EXCEPT !.embedding_status = "failed_permanent",
                                 !.error_message = error_message])
    /\ last' = [op |-> "queue"]
    /\ QueueUnchanged

\* mark_for_retry: the row's retry_count is read and incremented; at
\* MAX_RETRY_COUNT the row turns failed_permanent, below it the row turns
\* failed_retryable with the next retry scheduled from the new count.
mark_for_retry(image_id, error_message) ==
    /\ LET found == { im \in images : im.id = image_id }
           current_retry_count ==
               IF found = {} THEN 0
               ELSE (CHOOSE im \in found : TRUE).retry_count
           new_retry_count == current_retry_count + 1
       IN /\ current_retry_count < MaxRetries
          /\ images' =
               IF new_retry_count >= MAX_RETRY_COUNT
               THEN UpdateImage(image_id,
                      LAMBDA im : [im EXCEPT
                          !.embedding_status = "failed_permanent",
                          !.error_message = "Max retries exceeded",
                          !.retry_count = new_retry_count])
               ELSE UpdateImage(image_id,
                      LAMBDA im : [im EXCEPT
                          !.embedding_status = "failed_retryable",
                          !.error_message = error_message,
                          !.retry_count = new_retry_count,
                          !.next_retry_at =
                              calculate_next_retry_at(new_retry_count)])
          /\ last' = [op |-> "retry", image |-> image_id,
                      found |-> found # {},
                      before |-> found, at |-> now]
    /\ QueueUnchanged

\* Mutant of DueForRetry: the status is not looked at.
DueForRetry_AnyStatus(im) ==
    im.next_retry_at # NullTime /\ im.next_retry_at <= now

\* WHERE embedding_status = 'failed_retryable' AND next_retry_at <= now; a
\* NULL next_retry_at compares to NULL and the row is left out.
DueForRetry(im) ==
    /\ im.embedding_status = "failed_retryable"
    /\ im.next_retry_at # NullTime
    /\ im.next_retry_at <= now

\* The sequences that list the rows of a set once each, by next_retry_at
\* ascending; rows of equal next_retry_at come in any order.
OrderedByRetryAt(rows) ==
    { q \in [1..Cardinality(rows) -> rows] :
        /\ \A i, j \in DOMAIN q : i < j => q[i] # q[j]
        /\ \A i, j \in DOMAIN q :
              i < j => q[i].next_retry_at <= q[j].next_retry_at }

\* get_pending_retries(limit): the first limit rows due for retry.
get_pending_retries(limit) ==
    /\ \E q \in OrderedByRetryAt({ im \in images : DueForRetry(im) }) :
          last' = [op |-> "pending_retries", limit |-> limit,
                   result |-> SubSeq(q, 1, Min(limit, Len(q)))]
    /\ UNCHANGED images
    /\ QueueUnchanged

(***************************************************************************)
(* Initial state: an empty database over existing, empty directories.      *)
(***************************************************************************)
\* The state after construction, but for the ingestion job service.
InitStore ==
    /\ now = 0
    /\ fs = [p \in AllFiles |-> NoFile]
    /\ dirs = AllDirs
    /\ tracked = {}
    /\ snapshots = {}
    /\ merkle_nodes = {}
    /\ images = {}
    /\ embeddings = {}
    /\ assignments = {}
    /\ vector_store = {}
    /\ settings = NoSettings
    /\ _sync_enabled = TRUE
    /\ _sync_interval_seconds = 3600
    /\ _batch_size = 12
    /\ _image_extensions = << ".jpg", ".jpeg", ".png", ".webp" >>
    /\ _embedding_model = "jina-clip-v2"
    /\ _sync_task = "none"
    /\ _stop_event = "none"
    /\ pc = <<>>
    /\ loop_dirs = <<>>
    /\ job_id = <<>>
    /\ jobs = <<>>
    /\ synced_clean = {}
    /\ last = [op |-> "init"]

\* The service as get_directory_sync_service builds it: with a vector store
\* and no ingestion job service.
Init ==
    /\ InitStore
    /\ _ingestion_job_service = "none"

\* The service built with or without an ingestion job service (the
\* constructor's parameter is optional).
InitService ==
    /\ InitStore
    /\ _ingestion_job_service \in { "none", "service" }

(***************************************************************************)
(* Snapshot strategy over one tracked directory.                           *)
(***************************************************************************)
SnapshotFiles == { "/p/a.jpg", "/p/s/b.jpg" }

NextSnapshot ==
    \/ add_tracked_directory("/p", "snapshot", 300)
    \/ \E p \in SnapshotFiles, c \in Contents, m \in Mtimes : WriteFile(p, c, m)
    \/ \E p \in SnapshotFiles : DeleteFile(p)
    \/ \E r \in tracked : SnapshotSync(r.id)

SpecSnapshot == Init /\ [][NextSnapshot]_vars

(***************************************************************************)
(* Merkle strategy over one tracked directory with nested subdirectories.  *)
(***************************************************************************)
MerkleFiles == { "/p/a.jpg", "/p/s/b.jpg", "/p/s/t/c.jpg" }

NextMerkle ==
    \/ add_tracked_directory("/p", "merkle", 300)
    \/ \E p \in MerkleFiles, c \in Contents : WriteFile(p, c, 0)
    \/ \E p \in MerkleFiles : DeleteFile(p)
    \/ \E r \in tracked : MerkleSync(r.id)

SpecMerkle == Init /\ [][NextMerkle]_vars

(***************************************************************************)
(* Ingestion and sync passes over a tracked directory and its neighbour.   *)
(***************************************************************************)
\* The files that get written, each with the contents it can take: a.jpg is
\* renamed or copied to b.jpg, edited in place, and has a namesake with other
\* or the same bytes in the neighbouring directory.
IngestWrites ==
    { <<"/p/a.jpg", 1>>, <<"/p/a.jpg", MaxContent>>, <<"/p/b.jpg", 1>>,
      <<"/pq/a.jpg", MaxContent>> }

\* Directory ids a caller may name: those in use and the next free one.
DirIds == { r.id : r \in tracked } \cup { NextId(tracked) }

\* The sub-batches the embedder may raise on.
FailedBatches == SUBSET BatchIndices(Cardinality(AllFiles), _batch_size)

NextIngest ==
    \/ add_tracked_directory("/p", "snapshot", 300)
    \/ \E d \in AllDirs, failed \in FailedBatches :
          process_directory_for_ingestion(d, failed)
    \/ \E w \in IngestWrites : WriteFile(w[1], w[2], 0)
    \/ \E w \in IngestWrites : DeleteFile(w[1])
    \/ \E id \in DirIds, failed \in FailedBatches : sync_directory(id, failed)
    \/ \E im \in images : AssignCluster(im.id)

SpecIngest == Init /\ [][NextIngest]_vars

(***************************************************************************)
(* The registry: directories are added again and again, synced, removed.   *)
(***************************************************************************)
\* What callers pass as directory_path: canonical, with a trailing "/", and
\* a path that is no directory.
AddPaths == { "/p", "/p/", "/pq", "/nope" }

\* The strategy and interval arguments of add.
AddArgs == { <<"snapshot", 300>>, <<"merkle", 0>> }

NextRegistry ==
    \/ \E d \in AddPaths, a \in AddArgs : add_tracked_directory(d, a[1], a[2])
    \/ \E id \in DirIds : remove_tracked_directory(id)
    \/ \E id \in DirIds : sync_directory(id, {})

SpecRegistry == Init /\ [][NextRegistry]_vars

(***************************************************************************)
(* Removal of directories that hold ingested images; /p is a string prefix *)
(* of /pq, and /p changes its strategy.                                    *)
(***************************************************************************)
RemoveAdds ==
    { <<"/p", "snapshot">>, <<"/p", "merkle">>, <<"/pq", "snapshot">> }

RemoveWrites == { <<"/p/a.jpg", 1>>, <<"/pq/a.jpg", MaxContent>> }

NextRemove ==
    \/ \E a \in RemoveAdds : add_tracked_directory(a[1], a[2], 300)
    \/ \E id \in DirIds : remove_tracked_directory(id)
    \/ \E w \in RemoveWrites : WriteFile(w[1], w[2], 0)
    \/ \E d \in AllDirs, failed \in FailedBatches :
          process_directory_for_ingestion(d, failed)
    \/ \E id \in DirIds, failed \in FailedBatches : sync_directory(id, failed)
    \/ \E im \in images : AssignCluster(im.id)

SpecRemove == Init /\ [][NextRemove]_vars

(***************************************************************************)
(* The scheduler: directories are added with an interval of their own or   *)
(* with 0, synced by hand, the settings change, the clock advances and the *)
(* background loop runs.                                                   *)
(***************************************************************************)
SchedAdds == { <<"/p", 0>>, <<"/p", 2>> }
SchedSettings == { <<TRUE, "1m">>, <<FALSE, "1h">> }

NextSched ==
    \/ \E a \in SchedAdds : add_tracked_directory(a[1], "snapshot", a[2])
    \/ \E r \in tracked : sync_directory(r.id, {})
    \/ \E s \in SchedSettings : update_settings(SettingsUpdate(s[1], s[2]))
    \/ \E step \in { 1, 60 } : Tick(step)
    \/ start_background_sync
    \/ stop_background_sync
    \/ \E t \in DOMAIN pc : LoopTop(t)
    \/ \E t \in DOMAIN pc : LoopFor(t)
    \/ \E t \in DOMAIN pc : LoopPass(t, {})
    \/ \E t \in DOMAIN pc : LoopWake(t)

SpecSched == InitService /\ [][NextSched]_vars

(***************************************************************************)
(* The loop over two directories: both are registered and removed, and the *)
(* background loop is started, runs and is stopped.                        *)
(***************************************************************************)
LoopAdds == { <<"/p", 0>>, <<"/pq", 2>> }

NextLoop ==
    \/ \E a \in LoopAdds : add_tracked_directory(a[1], "snapshot", a[2])
    \/ \E r \in tracked : remove_tracked_directory(r.id)
    \/ start_background_sync
    \/ stop_background_sync
    \/ \E t \in DOMAIN pc : LoopTop(t)
    \/ \E t \in DOMAIN pc : LoopFor(t)
    \/ \E t \in DOMAIN pc : LoopPass(t, {})
    \/ \E t \in DOMAIN pc : LoopWake(t)

SpecLoop == InitService /\ [][NextLoop]_vars

\* The loop tasks are scheduled by the event loop: a task that can take a
\* step takes it; what callers do (add, remove, start, stop) is up to them.
LoopStep ==
    \E t \in DOMAIN pc :
        LoopTop(t) \/ LoopFor(t) \/ LoopPass(t, {}) \/ LoopWake(t)

SpecLoopFair == SpecLoop /\ WF_vars(LoopStep)

(***************************************************************************)
(* A tracked directory that disappears: it is registered under either      *)
(* strategy, a file is written, the directory is removed and made again,   *)
(* it is synced by hand and the clock advances.                            *)
(***************************************************************************)
MissingStrategies == { "snapshot", "merkle" }

NextMissing ==
    \/ \E st \in MissingStrategies : add_tracked_directory("/p", st, 2)
    \/ "/p" \in dirs /\ WriteFile("/p/a.jpg", 1, 0)
    \/ RemoveDir("/p")
    \/ MakeDir("/p")
    \/ \E r \in tracked : sync_directory(r.id, {})
    \/ Tick(1)

SpecMissing == Init /\ [][NextMissing]_vars

(***************************************************************************)
(* Directory scan jobs: files are written, some with the same bytes, the   *)
(* directory is removed and made again, and the directory is scanned.      *)
(***************************************************************************)
JobWrites ==
    { <<"/p/a.jpg", 1>>, <<"/p/b.jpg", 1>>, <<"/p/s/b.jpg", 1>>,
      <<"/p/b.jpg", 2>> }

NextJob ==
    \/ \E w \in JobWrites : "/p" \in dirs /\ WriteFile(w[1], w[2], 0)
    \/ \E w \in JobWrites : DeleteFile(w[1])
    \/ RemoveDir("/p")
    \/ MakeDir("/p")
    \/ \E failed \in FailedBatches : process_directory_job("/p", failed)

SpecJob == Init /\ [][NextJob]_vars

(***************************************************************************)
(* Files that are no images: a tracked directory receives files, some of   *)
(* bytes no thumbnail can be made of, and is synced.                       *)
(***************************************************************************)
BrokenWrites ==
    { <<"/p/a.jpg", 1>>, <<"/p/a.jpg", BadContent>>, <<"/p/b.jpg", 2>>,
      <<"/p/b.jpg", BadContent>> }

NextBroken ==
    \/ \E st \in MissingStrategies : add_tracked_directory("/p", st, 300)
    \/ \E w \in BrokenWrites : WriteFile(w[1], w[2], 0)
    \/ \E w \in BrokenWrites : DeleteFile(w[1])
    \/ \E r \in tracked : sync_directory(r.id, {})

SpecBroken == Init /\ [][NextBroken]_vars

(***************************************************************************)
(* The embedding queue: images enter pending, are processed, fail and are  *)
(* retried while the clock advances.                                       *)
(***************************************************************************)
QueueImages == { <<1, "/p/a.jpg">>, <<2, "/p/b.jpg">> }
QueueIds == 1..MaxId
QueueLimits == 1..2
\* Steps of the clock: a second, and the delay before the first retry.
QueueSteps == { 1, 2 * RETRY_BASE_DELAY_SECONDS }

NextRetry ==
    \/ \E w \in QueueImages :
          create_image_with_pending_status(FileHash(w[1]), w[2])
    \/ \E id \in QueueIds : mark_embedding_processing(id)
    \/ mark_embedding_complete(2, 2)
    \/ mark_embedding_failed_permanent(1, "400")
    \/ \E id \in QueueIds : mark_for_retry(id, "503")
    \/ \E limit \in QueueLimits : get_pending_retries(limit)
    \/ \E step \in QueueSteps : Tick(step)

SpecRetry == Init /\ [][NextRetry]_vars

(***************************************************************************)
(* Directory hashes: _hash_children on lists of file hashes and of hashes  *)
(* of subdirectories, in every order and with repeats.                     *)
(***************************************************************************)
ChildHashValues ==
    { FileHash(c) : c \in Contents }
    \cup { _hash_children(<< FileHash(1) >>),
           _hash_children(<< FileHash(1), FileHash(2) >>) }

ChildHashLists ==
    UNION { [1..n -> ChildHashValues] : n \in 0..MaxChildren }

NextHash == \E child_hashes \in ChildHashLists : HashChildren(child_hashes)

SpecHash == Init /\ [][NextHash]_vars

(***************************************************************************)
(* Settings: the endpoint is called with new values of the five settings   *)
(* while the background loop is started, runs and is stopped.              *)
(***************************************************************************)
SettingsUpdates ==
    [auto_reindex : BOOLEAN, sync_frequency : { "1m", "1h" },
     batch_size : { 12, 5 },
     image_extensions : { << "jpg", "jpeg", "png", "webp" >>, << ".png" >> },
     embedding_model : { "jina-clip-v2", "siglip" }]

NextSettings ==
    \/ \E update_data \in SettingsUpdates : update_settings(update_data)
    \/ start_background_sync
    \/ stop_background_sync
    \/ \E t \in DOMAIN pc : LoopTop(t)
    \/ \E t \in DOMAIN pc : LoopFor(t)
    \/ \E t \in DOMAIN pc : LoopWake(t)

SpecSettings == Init /\ [][NextSettings]_vars

(***************************************************************************)
(* A nested layout: a tracked directory with a file at its root and a file *)
(* two levels down is ingested and synced under either strategy.           *)
(***************************************************************************)
NestedWrites ==
    { <<"/p/a.jpg", 1>>, <<"/p/s/t/c.jpg", MaxContent>> }

NextNested ==
    \/ \E st \in MissingStrategies : add_tracked_directory("/p", st, 300)
    \/ \E w \in NestedWrites : WriteFile(w[1], w[2], 0)
    \/ \E w \in NestedWrites : DeleteFile(w[1])
    \/ process_directory_for_ingestion("/p", {})
    \/ \E r \in tracked : sync_directory(r.id, {})

SpecNested == Init /\ [][NextNested]_vars

(***************************************************************************)
(* Batches of up to MaxFiles files on each ingestion path, every set of    *)
(* sub-batches failing.                                                    *)
(***************************************************************************)
IngestionPaths == { "sync", "job", "legacy" }

NextBatch ==
    \E path \in IngestionPaths, n \in 0..MaxFiles,
       failed \in SUBSET BatchIndices(MaxFiles, 12) :
        EmbedBatch(path, n, failed)

SpecBatch == Init /\ [][NextBatch]_vars

(***************************************************************************)
(* Properties of the change-detection strategies.                          *)
(***************************************************************************)
\* The image files present under a root, read off the file system.
FilesUnder(root) ==
    { p \in AllFiles : fs[p].content # 0 /\ StartsWith(p, root \o "/") }

\* The root of the directory the last sync ran on.
LastRoot == (CHOOSE r \in tracked : r.id = last.dir).path

LastIsSync(strategy) ==
    last.op = "sync" /\ last.strategy_used = strategy /\ last.ok

StoredRows(p) ==
    { s \in last.stored : JoinPath(LastRoot, s.relative_path) = p }

\* C3: a snapshot sync returns added = the scanned files with no stored row,
\* deleted = the stored relative paths with no scanned file, modified = the
\* files whose size or mtime differs from the row and whose hash differs from
\* the row's hash; the rest is unchanged, so the counts add up to |F|.
C3_SnapshotDetection ==
    LastIsSync("snapshot") =>
        LET F == FilesUnder(LastRoot) IN
        /\ last.added = { p \in F : StoredRows(p) = {} }
        /\ last.deleted =
             { s.relative_path :
               s \in { t \in last.stored :
                         JoinPath(LastRoot, t.relative_path) \notin F } }
        /\ last.modified =
             { p \in F : \E s \in StoredRows(p) :
                 /\ \/ s.file_size # (fs[p].content + 1) \div 2
                    \/ s.modified_time # fs[p].mtime
                 /\ s.file_hash # <<fs[p].content>> }
        /\ Cardinality(last.added) + Cardinality(last.modified) + last.unchanged
             = Cardinality(F)

\* A snapshot sync that reports a modified file next to a deleted one.
C3_Witness ==
    /\ LastIsSync("snapshot")
    /\ last.modified # {}
    /\ last.deleted # {}

\* C2: a Merkle sync over a stored tree, with no file created, changed or
\* removed since the previous sync, returns no added, modified or deleted path.
C2_MerkleIdempotent ==
    (LastIsSync("merkle") /\ last.clean /\ last.stored # {}) =>
        /\ last.added = {}
        /\ last.modified = {}
        /\ last.deleted = {}

\* The stored file nodes before the last sync.
StoredFileNodes == { n \in last.stored : n.node_type = "file" }

\* C4: a Merkle sync over a stored tree returns added = the files with no
\* stored file node or with another hash, deleted = the relative paths of the
\* stored file nodes whose file is gone, and modified = [].
C4_MerkleDetection ==
    (LastIsSync("merkle") /\ last.stored # {}) =>
        LET F == FilesUnder(LastRoot) IN
        /\ last.added =
             { p \in F : ~\E n \in StoredFileNodes :
                 /\ JoinPath(LastRoot, n.relative_path) = p
                 /\ n.node_hash = <<fs[p].content>> }
        /\ last.deleted =
             { n.relative_path :
               n \in { m \in StoredFileNodes :
                         JoinPath(LastRoot, m.relative_path) \notin F } }
        /\ last.modified = {}

(***************************************************************************)
(* Properties of a sync-and-ingest pass.                                   *)
(***************************************************************************)
\* The last operation was sync_directory on a registered directory.
PassDone == last.op = "pass" /\ last.found

\* The content hash of the file now at path p.
HashAt(p) == <<fs[p].content>>

\* C5: when the bytes of an existing Image turn up at a new path under the
\* tracked directory (copy, move or rename), the pass submits that file to
\* the embedder not at all, adds no Image row for the content, and leaves
\* the Image with its id, hash, status and Embedding.
C5_ContentDedup ==
    PassDone =>
        \A p \in last.added : \A im \in last.before.images :
            (im.file_hash = HashAt(p) /\ im.file_path # p) =>
                /\ p \notin last.embedded
                /\ \A x \in images : x.file_hash = im.file_hash => x.id = im.id
                /\ \E x \in images :
                      /\ x.id = im.id
                      /\ [x EXCEPT !.file_path = im.file_path] = im
                /\ \E e \in embeddings :
                      e.id = im.embedding_id /\ e \in last.before.embeddings

\* The images a pass found in the database whose file was not reported deleted.
Survivors ==
    { im \in last.before.images :
        im.file_path \notin { JoinPath(last.root, rel) : rel \in last.deleted } }

\* The added or modified paths that carry the bytes of image im.
CopiesOf(im) ==
    { p \in last.added \cup last.modified : HashAt(p) = im.file_hash }

Named ==
    { im \in last.before.images :
        \E rel \in last.deleted : im.file_path = JoinPath(last.root, rel) }

Under ==
    { im \in last.before.db.images : StartsWith(im.file_path, last.path \o "/") }

\* C8: after remove_tracked_directory(id) returned true there is no
\* TrackedDirectory, DirectorySnapshot or MerkleNode row of that id, no Image
\* under the directory's path, no Embedding or ClusterAssignment row of such
\* an Image, and a vector-store deletion was issued for each such Image id;
\* for an unknown id it returns false and nothing has changed.
C8_RemoveCascade ==
    /\ (last.op = "remove" /\ last.ok) =>
          /\ \E r \in last.before.tracked : r.id = last.id
          /\ ~\E r \in tracked : r.id = last.id
          /\ ~\E r \in snapshots : r.tracked_directory_id = last.id
          /\ ~\E n \in merkle_nodes : n.tracked_directory_id = last.id
          /\ ~\E im \in images : StartsWith(im.file_path, last.path \o "/")
          /\ \A im \in Under :
                /\ ~\E e \in embeddings : e.id = im.embedding_id
                /\ ~\E a \in assignments : a.image_id = im.id
                /\ im.id \in last.vs_issued
    /\ (last.op = "remove" /\ ~last.ok) =>
          /\ ~\E r \in last.before.tracked : r.id = last.id
          /\ Stored = last.before

\* A directory with snapshot rows, Merkle rows and an assigned image was
\* removed while an image of the neighbouring directory stays.
C8_Witness ==
    /\ last.op = "remove"
    /\ last.ok
    /\ \E r \in last.before.snapshots : r.tracked_directory_id = last.id
    /\ \E n \in last.before.merkle_nodes : n.tracked_directory_id = last.id
    /\ \E im \in Under : \E a \in last.before.db.assignments : a.image_id = im.id
    /\ images # {}

\* C9: there is at most one TrackedDirectory row per canonical path, and an
\* add of a path that is registered returns the row with the id it had,
\* sync_strategy and sync_interval_seconds as just passed and is_active
\* true, without adding a row.
C9_AddUpsert ==
    /\ \A r1, r2 \in tracked : (r1.path = r2.path \/ r1.id = r2.id) => r1 = r2
    /\ \A r \in tracked : r.path \in { "/p", "/pq" }
    /\ (/\ last.op = "add"
        /\ \E r \in last.before : \/ r.path = last.directory_path
                                    \/ r.path \o "/" = last.directory_path) =>
          LET old == CHOOSE r \in last.before :
                        \/ r.path = last.directory_path
                        \/ r.path \o "/" = last.directory_path
          IN /\ last.ok
             /\ last.row.id = old.id
             /\ last.row.sync_strategy = last.strategy
             /\ last.row.sync_interval_seconds = last.interval
             /\ last.row.is_active
             /\ last.row \in tracked
             /\ Cardinality(tracked) = Cardinality(last.before)

\* A registered directory was added again, under a non-canonical spelling
\* and with another strategy and interval, while a second one is registered.
C9_Witness ==
    /\ last.op = "add"
    /\ last.ok
    /\ last.directory_path = "/p/"
    /\ \E r \in last.before :
          /\ r.path = "/p"
          /\ r.sync_strategy # last.strategy
          /\ r.sync_interval_seconds # last.interval
    /\ Cardinality(tracked) = 2

(***************************************************************************)
(* The scheduler's gate.                                                   *)
(***************************************************************************)
\* The row of the directory the loop has just looked at, as stored now.
EvalStored == CHOOSE r \in tracked : r.id = last.row.id

\* C10: whenever the loop looks at a directory, it gives it a pass if and
\* only if auto-sync is enabled, the directory is active and either its
\* last_synced_at is null or the current time is at or past last_synced_at
\* plus the directory's own sync_interval_seconds; and a pass given to a
\* directory that is still registered runs the strategy's sync.
C10_PassIffOwnIntervalDue ==
    /\ (last.op = "eval" /\ \E r \in tracked : r.id = last.row.id) =>
          (last.given <=>
              /\ _sync_enabled
              /\ EvalStored.is_active
              /\ \/ EvalStored.last_synced_at = NullTime
                 \/ now >= EvalStored.last_synced_at
                           + EvalStored.sync_interval_seconds)
    /\ (last.op = "scheduled" /\ last.outcome # "missing") => last.synced

\* The interval the gate uses for a row.
EffectiveInterval(row) ==
    IF row.sync_interval_seconds # 0 THEN row.sync_interval_seconds
    ELSE _sync_interval_seconds

\* What the loop's last step shows of its gate: directories are loaded only
\* with auto-sync enabled, and then the active ones; a loaded row is due
\* when never synced or when the effective interval has passed.
LoopGate ==
    /\ last.op = "tick" =>
          /\ last.loaded # <<>> => last.enabled
          /\ last.enabled /\ _stop_event # "set" =>
                Range(last.loaded) = { r \in tracked : r.is_active }
    /\ last.op = "eval" =>
          /\ last.row.is_active
          /\ last.given <=>
                \/ last.row.last_synced_at = NullTime
                \/ now >= last.row.last_synced_at + EffectiveInterval(last.row)

\* The gate as the code has it; a pass begins nowhere but at a due row.
GateUsesEffectiveInterval ==
    /\ []LoopGate
    /\ [][(/\ \E t \in DOMAIN pc' : pc'[t] = "pass"
            /\ ~ \E u \in DOMAIN pc : pc[u] = "pass")
              => last'.op = "eval" /\ last'.given]_vars

\* A directory with interval 0, synced before, is given a pass once the
\* service's interval has passed.
FallbackIntervalElapsed ==
    /\ last.op = "eval"
    /\ last.given
    /\ last.row.last_synced_at # NullTime
    /\ last.row.sync_interval_seconds = 0
    /\ now >= last.row.last_synced_at + _sync_interval_seconds

\* A directory with interval 0, synced before, is passed over although its
\* own interval has passed.
OwnIntervalElapsedNotGiven ==
    /\ last.op = "eval"
    /\ ~ last.given
    /\ last.row.sync_interval_seconds = 0
    /\ last.row = EvalStored
    /\ now >= last.row.last_synced_at + last.row.sync_interval_seconds

\* A pass given to a never-synced directory ended before the strategy ran.
PassEndedBeforeSync ==
    /\ last.op = "scheduled"
    /\ last.outcome = "error"
    /\ ~ last.synced
    /\ \E r \in tracked : /\ r.id = last.dir
                          /\ r.last_synced_at = NullTime
                          /\ r.last_error = "TypeError"
    /\ jobs[Len(jobs)].status = "error"

(***************************************************************************)
(* The scheduler's tasks and passes.                                       *)
(***************************************************************************)
\* The loop tasks that are inside a directory's pass.
PassesInFlight == { t \in DOMAIN pc : pc[t] = "pass" }

PassFailed ==
    \/ last.op = "scheduled" /\ last.outcome = "error"
    \/ last.op = "eval" /\ last.call = "AttributeError"

FailedDir == IF last.op = "scheduled" THEN last.dir ELSE last.row.id

\* C12: when the scheduler's pass over a directory fails, the directory's
\* row has the failure message as last_error, the pass's job is in status
\* error carrying a message, and the loop is still running and stands at
\* the next of the rows it loaded for this iteration, none of them dropped.
C12_FailureCaughtLoopGoesOn ==
    PassFailed =>
        /\ \A r \in tracked : r.id = FailedDir => r.last_error # NullError
        /\ last.op = "scheduled"
        /\ jobs[last.job].status = "error"
        /\ jobs[last.job].errors # <<>>
        /\ last.task \in DOMAIN pc
        /\ pc[last.task] = "for"
        /\ loop_dirs[last.task] = last.rest
        /\ _sync_task = "running"

\* What holds of a failure inside the try block of
\* _sync_with_error_handling_obj.
PassFailureCaught ==
    (last.op = "scheduled" /\ last.outcome = "error") =>
        /\ jobs[last.job].status = "error"
        /\ jobs[last.job].errors = << "TypeError" >>
        /\ \A r \in tracked : r.id = last.dir => r.last_error = "TypeError"
        /\ last.task \in DOMAIN pc
        /\ pc[last.task] = "for"
        /\ loop_dirs[last.task] = last.rest
        /\ _sync_task = "running"

\* A failure inside the try block is caught; a loop task ends only by
\* stop_background_sync; a loop that stands before a loaded row evaluates
\* that row next.
FailureInsideTryCaught ==
    /\ []PassFailureCaught
    /\ [][Len(pc') < Len(pc) => last'.op = "stop"]_vars
    /\ [][\A t \in DOMAIN pc :
            (/\ pc[t] = "for"
             /\ loop_dirs[t] # <<>>
             /\ t \in DOMAIN pc'
             /\ <<pc[t], loop_dirs[t]>> # <<pc'[t], loop_dirs'[t]>>
             /\ last'.op # "stop")
            => last'.op = "eval" /\ last'.row = Head(loop_dirs[t])]_vars

\* Without an ingestion job service the pass over the first of two loaded
\* directories failed: no job, no last_error, and the second directory is
\* not looked at in this iteration.
SecondDirectorySkipped ==
    /\ last.op = "eval"
    /\ last.call = "AttributeError"
    /\ last.rest # <<>>
    /\ jobs = <<>>
    /\ \A r \in tracked : r.last_error = NullError
    /\ pc[last.task] = "sleep"
    /\ loop_dirs[last.task] = <<>>

\* C13: stop_background_sync never cuts a pass short: when it is called
\* while the loop is inside a directory's pass, that pass's job has reached
\* completed or error when stop returns; and when stop returns the loop has
\* exited.
C13_StopWaitsForPass ==
    last.op = "stop" =>
        /\ last.at = "pass" => jobs[last.job].status \in { "completed", "error" }
        /\ _sync_task # "running"
        /\ pc = <<>>

\* stop_background_sync returned while a pass was in flight; the pass's
\* job is left in status processing and no loop is there to end it.
PassCutShort ==
    /\ last.op = "stop"
    /\ last.at = "pass"
    /\ jobs[last.job].status = "processing"
    /\ pc = <<>>

\* Exactly the task held in _sync_task is alive, and after a start call a
\* loop task is running.
OneLoopTask ==
    /\ Len(pc) <= 1
    /\ _sync_task = "running" <=> Len(pc) = 1
    /\ last.op = "start" => Len(pc) = 1 /\ _sync_task = "running"

\* C14: start_background_sync called while the loop is running creates no
\* loop task and leaves the running one, its job and the stop event as they
\* are; after any start call exactly one loop task is running.
C14_StartIdempotent ==
    /\ []OneLoopTask
    /\ [][(last'.op = "start" /\ _sync_task = "running") =>
             UNCHANGED <<pc, loop_dirs, job_id, jobs, _sync_task, _stop_event,
                         _sync_enabled, _sync_interval_seconds>>]_vars

\* start_background_sync was called while the loop was inside a pass.
C14_Witness ==
    /\ last.op = "start"
    /\ last.was = "running"
    /\ Len(pc) = 1
    /\ pc[1] = "pass"

(***************************************************************************)
(* A pass over a directory that is not there.                              *)
(***************************************************************************)
\* The last step was a pass over a registered directory whose path did not
\* exist.
MissingDirPass ==
    /\ last.op = "pass"
    /\ last.found
    /\ Resolve(last.root) \notin dirs

\* C15: a pass over a tracked directory whose path does not exist reports
\* no added, modified or deleted path and exactly one error; afterwards the
\* directory's last_error is not null, is_active is true and the directory
\* is due.
C15_MissingDirectoryKeptDue ==
    MissingDirPass =>
        /\ last.added = {} /\ last.modified = {} /\ last.deleted = {}
        /\ last.errors = 1
        /\ \A r \in tracked : r.id = last.dir =>
              /\ r.last_error # NullError
              /\ r.is_active
              /\ _should_sync_directory_obj(r)

\* After a pass over a directory that is not there the row has no
\* last_error, is marked synced at the time of the pass and is not due.
MissingDirMarkedSynced ==
    /\ MissingDirPass
    /\ last.errors = 1
    /\ \E r \in tracked : /\ r.id = last.dir
                          /\ r.last_error = NullError
                          /\ r.last_synced_at = now
                          /\ ~ _should_sync_directory_obj(r)

(***************************************************************************)
(* last_synced_at and a pass that fails.                                   *)
(***************************************************************************)
\* C16: a pass in which handling the deletions or indexing the added and
\* modified files fails leaves the directory's last_synced_at at the value
\* it had before the pass.
C16_SyncedAtKeptOnFailure ==
    [][(last'.op = "pass" /\ last'.found /\ last'.raised) =>
          \A r \in tracked, q \in tracked' :
              (r.id = last'.dir /\ q.id = last'.dir) =>
                  q.last_synced_at = r.last_synced_at]_vars

\* The indexing of a pass raised, and the row is marked synced at the time
\* of the pass, with no last_error.
FailedPassMarkedSynced ==
    /\ last.op = "pass"
    /\ last.found
    /\ last.raised
    /\ \E r \in tracked : /\ r.id = last.dir
                          /\ r.last_synced_at = now
                          /\ r.last_error = NullError

(***************************************************************************)
(* Job records.                                                            *)
(***************************************************************************)
\* C17: within a job the processed counter never decreases: every update of
\* the job record leaves processed at or above its value before.
C17_ProcessedMonotone ==
    last.op = "job" =>
        \A i \in 1..(Len(last.updates) - 1) :
            last.updates[i + 1].processed >= last.updates[i].processed

\* A scan found one new file and two files with the same bytes: processed
\* was counted up to 2 by the filter and set to 1 by the embedding's
\* progress callback.
ProcessedSetBack ==
    /\ last.op = "job"
    /\ \E i \in 1..(Len(last.updates) - 1) :
          /\ last.updates[i].processed = 2
          /\ last.updates[i + 1].processed = 1
          /\ last.updates[i].total = 3
          /\ last.updates[i + 1].total = 1

\* C18: in every state of a job record, progress is 1.0 exactly when the
\* job's status is completed.
C18_FullProgressIffCompleted ==
    /\ \A j \in 1..Len(jobs) :
          jobs[j].progress = 100 <=> jobs[j].status = "completed"
    /\ last.op = "job" =>
          \A i \in 1..Len(last.updates) :
              last.updates[i].progress = 100
                  <=> last.updates[i].status = "completed"

\* The progress callback of the last sub-batch has set progress to 1.0, the
\* embeddings are not saved yet and the job is still processing.
FullProgressWhileProcessing ==
    /\ last.op = "job"
    /\ \E i \in 1..Len(last.updates) :
          /\ last.updates[i].status = "processing"
          /\ last.updates[i].progress = 100
          /\ last.updates[i].processed = last.updates[i].total
          /\ last.updates[i].total > 0

(***************************************************************************)
(* The first scheduled pass.                                               *)
(***************************************************************************)
\* The files under a directory all differ in content and none has an Image.
AllNewImages(path) ==
    /\ \A p, q \in scan_directory(path) : p # q => fs[p].content # fs[q].content
    /\ \A p \in scan_directory(path) :
          ~ \E i \in images : i.file_hash = compute_file_hash(p)

\* C19: the first scheduled pass over a never-synced directory holding n
\* new images (n >= 0) reports n added paths and unchanged 0, and its job
\* ends completed with progress 1.0 and processed = total = n.
C19_FirstScheduledPass ==
    ( /\ last.op = "scheduled"
      /\ last.never_synced
      /\ \E r \in tracked :
            r.id = last.dir /\ r.path \in dirs /\ AllNewImages(r.path) )
    => /\ last.outcome = "completed"
       /\ Cardinality(last.result.added) =
              Cardinality(scan_directory(
                  (CHOOSE r \in tracked : r.id = last.dir).path))
       /\ last.result.unchanged = 0
       /\ jobs[last.job].status = "completed"
       /\ jobs[last.job].progress = 100
       /\ jobs[last.job].processed = jobs[last.job].total
       /\ jobs[last.job].total = Cardinality(last.result.added)

\* The first scheduled pass over an empty, never-synced directory ended in
\* error before the strategy ran: the job is in error and the row was not
\* marked synced.
FirstScheduledPassFailed ==
    /\ last.op = "scheduled"
    /\ last.never_synced
    /\ last.outcome = "error"
    /\ jobs[last.job].status = "error"
    /\ jobs[last.job].errors = << "TypeError" >>
    /\ \E r \in tracked :
          /\ r.id = last.dir
          /\ r.path \in dirs
          /\ scan_directory(r.path) = {}
          /\ r.last_synced_at = NullTime
          /\ r.last_error = "TypeError"

(***************************************************************************)
(* Files that fail during indexing.                                        *)
(***************************************************************************)
\* C20: when the thumbnail (or the hash, or the metadata) of one candidate
\* file fails during indexing, the failure is in the sync's error list or on
\* the row when the pass ends, only that file is left out, and the other
\* files are embedded and persisted.
C20_FileFailureRecordedRestPersisted ==
    (last.op = "pass" /\ last.found /\ last.index_errors # <<>>)
    => /\ \/ last.errors > 0
          \/ \E r \in tracked :
                /\ r.id = last.dir
                /\ \E i \in 1..Len(last.index_errors) :
                      r.last_error = "Error indexing " \o last.index_errors[i]
       /\ \A p \in last.added \cup last.modified :
             (Exists(p) /\ ~Undecodable(p)
              /\ ExistingByHash(last.before.images, compute_file_hash(p)) = {})
             => p \in last.embedded
       /\ \A p \in last.embedded : \E im \in images : im.file_path = p

\* The only new file of a pass could not be thumbnailed: the pass ended
\* without an error in its result, and the row's last_error is NULL.
FileFailureLost ==
    /\ last.op = "pass" /\ last.found
    /\ last.index_errors = << "/p/a.jpg" >>
    /\ last.embedded = {}
    /\ ~last.raised
    /\ last.errors = 0
    /\ \E r \in tracked : r.id = last.dir /\ r.last_error = NullError

\* One new file could not be thumbnailed, the other was embedded: saving it
\* raised, no Image was stored and the row carries no indexing error.
RestNotPersisted ==
    /\ last.op = "pass" /\ last.found
    /\ last.index_errors = << "/p/a.jpg" >>
    /\ last.embedded = { "/p/b.jpg" }
    /\ last.raised
    /\ images = {}
    /\ \E r \in tracked : r.id = last.dir /\ r.last_error = NullError

(***************************************************************************)
(* The embedding queue.                                                    *)
(***************************************************************************)
\* The row mark_for_retry found, before and after the call.
RetriedBefore == CHOOSE im \in last.before : TRUE
RetriedAfter == CHOOSE im \in images : im.id = last.image

\* C21: a retryable failure of an image whose retry_count is r, the image
\* staying retryable, schedules next_retry_at at the current time plus
\* RETRY_BASE_DELAY_SECONDS * 2^r: the base delay for r = 0, twice for r = 1.
C21_BackoffFromCountBefore ==
    ( /\ last.op = "retry"
      /\ last.found
      /\ RetriedAfter.embedding_status = "failed_retryable" )
    => RetriedAfter.next_retry_at =
          last.at + RETRY_BASE_DELAY_SECONDS * Pow2(RetriedBefore.retry_count)

\* The first retryable failure of an image (retry_count 0) scheduled the
\* retry at twice the base delay.
FirstRetryAtTwiceBase ==
    /\ last.op = "retry"
    /\ last.found
    /\ RetriedBefore.retry_count = 0
    /\ RetriedAfter.embedding_status = "failed_retryable"
    /\ RetriedAfter.retry_count = 1
    /\ RetriedAfter.next_retry_at = last.at + 2 * RETRY_BASE_DELAY_SECONDS

\* C22: a retryable failure turns an image failed_permanent only when its
\* retry_count had reached MAX_RETRY_COUNT before; an earlier failure leaves
\* it failed_retryable with retry_count one higher and a retry scheduled;
\* a failed_permanent image gets no further retry scheduled.
C22_PermanentOnlyAfterMax ==
    (last.op = "retry" /\ last.found)
    => /\ ( /\ RetriedAfter.embedding_status = "failed_permanent"
            /\ RetriedBefore.embedding_status # "failed_permanent" )
          => RetriedBefore.retry_count >= MAX_RETRY_COUNT
       /\ ( /\ RetriedBefore.retry_count < MAX_RETRY_COUNT
            /\ RetriedBefore.embedding_status # "failed_permanent" )
          => /\ RetriedAfter.embedding_status = "failed_retryable"
             /\ RetriedAfter.retry_count = RetriedBefore.retry_count + 1
             /\ RetriedAfter.next_retry_at # NullTime
       /\ RetriedBefore.embedding_status = "failed_permanent"
          => /\ RetriedAfter.embedding_status = "failed_permanent"
             /\ RetriedAfter.next_retry_at = RetriedBefore.next_retry_at

\* An image that had failed twice (retry_count 2, below MAX_RETRY_COUNT)
\* failed again and turned failed_permanent.
PermanentBelowMax ==
    /\ last.op = "retry"
    /\ last.found
    /\ RetriedBefore.embedding_status = "failed_retryable"
    /\ RetriedBefore.retry_count = MAX_RETRY_COUNT - 1
    /\ RetriedAfter.embedding_status = "failed_permanent"
    /\ RetriedAfter.retry_count = MAX_RETRY_COUNT

\* C30: get_pending_retries(limit) returns only failed_retryable images whose
\* next_retry_at is at or before the current time, by next_retry_at
\* ascending, the oldest due first, and never more than limit of them.
C30_PendingRetriesDueOrderedBounded ==
    last.op = "pending_retries"
    => /\ Len(last.result) <= last.limit
       /\ \A i \in 1..Len(last.result) :
             /\ last.result[i] \in images
             /\ last.result[i].embedding_status = "failed_retryable"
             /\ last.result[i].next_retry_at # NullTime
             /\ last.result[i].next_retry_at <= now
       /\ \A i, j \in 1..Len(last.result) :
             i < j => /\ last.result[i] # last.result[j]
                      /\ last.result[i].next_retry_at
                            <= last.result[j].next_retry_at
       /\ \A im \in images :
             ( /\ im.embedding_status = "failed_retryable"
               /\ im.next_retry_at # NullTime
               /\ im.next_retry_at <= now
               /\ im \notin Range(last.result) )
             => /\ Len(last.result) = last.limit
                /\ \A i \in 1..Len(last.result) :
                      last.result[i].next_retry_at <= im.next_retry_at

\* One image was due and returned; the other, completed after a failure,
\* has a next_retry_at in the past and was left out.
C30_Witness ==
    /\ last.op = "pending_retries"
    /\ last.limit = 2
    /\ Len(last.result) = 1
    /\ \E im \in images :
          /\ im.embedding_status = "completed"
          /\ im.next_retry_at # NullTime
          /\ im.next_retry_at <= now

\* Two images were due at different times and came back oldest first.
PendingRetriesOldestFirst ==
    /\ last.op = "pending_retries"
    /\ Len(last.result) = 2
    /\ last.result[1].next_retry_at < last.result[2].next_retry_at

(***************************************************************************)
(* Merkle determinism.                                                     *)
(***************************************************************************)
\* The lists that hold the elements of hs in another order.
Reordered(hs) ==
    { [i \in 1..Len(hs) |-> hs[f[i]]] : f \in Permutations(1..Len(hs)) }

\* C23: the hash of a directory does not depend on the order of its
\* children: _hash_children returns the same value for a list of child
\* hashes and for every permutation of it.
C23_HashChildrenOrderFree ==
    last.op = "hash_children"
    => \A q \in Reordered(last.child_hashes) :
          _hash_children(q) = last.dir_hash

\* Three different child hashes, a subdirectory's among them, were given in
\* an order that is not the sorted one.
C23_Witness ==
    /\ last.op = "hash_children"
    /\ Len(last.child_hashes) = 3
    /\ Cardinality(Range(last.child_hashes)) = 3
    /\ \E i \in 1..3 : Len(last.child_hashes[i]) > 1
    /\ SortHashes(last.child_hashes) # last.child_hashes
    /\ Cardinality({ _hash_children(q) : q \in Reordered(last.child_hashes) }) = 1

(***************************************************************************)
(* Settings.                                                               *)
(***************************************************************************)
\* C24: after the settings are updated through the endpoint, the service
\* uses the new values of the five loop-level settings: the enable flag, the
\* default interval, the batch size, the extensions and the model name.
C24_ServiceFollowsSettings ==
    last.op = "settings"
    => /\ _sync_enabled = settings.auto_reindex
       /\ _sync_interval_seconds = ParseFrequency(settings.sync_frequency)
       /\ _batch_size = settings.batch_size
       /\ _image_extensions = WithDots(settings.image_extensions)
       /\ _embedding_model = settings.embedding_model

\* The loop runs, the endpoint has saved batch size 5, extension .png and
\* model siglip and set the flag and the interval, and the service still has
\* the batch size, extensions and model it was built with.
ServiceKeepsOldSettings ==
    /\ last.op = "settings"
    /\ _sync_task = "running"
    /\ settings.batch_size = 5
    /\ settings.image_extensions = << ".png" >>
    /\ settings.embedding_model = "siglip"
    /\ _sync_enabled = settings.auto_reindex
    /\ _sync_interval_seconds = ParseFrequency(settings.sync_frequency)
    /\ _batch_size = 12
    /\ _image_extensions = << ".jpg", ".jpeg", ".png", ".webp" >>
    /\ _embedding_model = "jina-clip-v2"

(***************************************************************************)
(* Content on disk stays indexed.                                          *)
(***************************************************************************)
\* The content of file p is indexed in db: an Image of its hash, the
\* Image's Embedding and its vector-store entry exist.
Indexed(p, db) ==
    \E im \in db.images :
        /\ im.file_hash = compute_file_hash(p)
        /\ \E e \in db.embeddings : e.id = im.embedding_id
        /\ \E v \in db.vector_store : v.id = im.id

\* C25: a sync pass never de-indexes content that is still on disk: a file
\* under the tracked directory that exists during the pass and whose content
\* was indexed before the pass is indexed after it, under both strategies
\* and at any depth.
C25_ContentOnDiskStaysIndexed ==
    (last.op = "pass" /\ last.found)
    => \A p \in scan_directory(last.root) :
          Indexed(p, last.before) => Indexed(p, Db)

\* A Merkle pass over an unchanged directory removed the Image of the file
\* two levels down, which is still on disk.
NestedFileDeindexed ==
    /\ last.op = "pass" /\ last.found
    /\ Exists("/p/s/t/c.jpg")
    /\ Indexed("/p/s/t/c.jpg", last.before)
    /\ "s/t/c.jpg" \in last.deleted
    /\ last.added = {} /\ last.modified = {}
    /\ ~last.raised
    /\ ~\E im \in images : im.file_hash = compute_file_hash("/p/s/t/c.jpg")

(***************************************************************************)
(* Detected changes that were not indexed.                                 *)
(***************************************************************************)
\* File p was reported added or modified by the pass just ended and has no
\* Image of its content.
ReportedNotIndexed(p) ==
    /\ last.op = "pass" /\ last.found
    /\ p \in last.added \cup last.modified
    /\ Exists(p)
    /\ ExistingByHash(images, compute_file_hash(p)) = {}

\* C26: no detected change is lost: a file that a pass reported added or
\* modified and that ended the pass without an Image is reported again by
\* the next pass over the same, unchanged directory.
C26_ChangeReportedAgain ==
    [][ \A p \in AllFiles :
          ( /\ ReportedNotIndexed(p)
            /\ last'.op = "pass" /\ last'.found
            /\ last'.dir = last.dir )
          => p \in last'.added \cup last'.modified ]_vars

\* A pass over the directory reported nothing although /p/a.jpg is on disk
\* under it, has a snapshot row and has no Image: the pass before stored the
\* snapshot and failed to save the Image.
ChangeLost ==
    /\ last.op = "pass" /\ last.found
    /\ last.root = "/p"
    /\ last.added = {} /\ last.modified = {} /\ last.deleted = {}
    /\ Exists("/p/a.jpg")
    /\ images = {}
    /\ \E r \in snapshots :
          r.tracked_directory_id = last.dir /\ r.relative_path = "a.jpg"

(***************************************************************************)
(* Files of identical bytes in one pass.                                   *)
(***************************************************************************)
\* The files the pass just ended reported new or changed, that exist and
\* whose content had no Image before the pass.
NewInPass ==
    { p \in last.added \cup last.modified :
        /\ Exists(p)
        /\ ExistingByHash(last.before.images, compute_file_hash(p)) = {} }

\* C27: when one pass reports two or more new files of identical bytes whose
\* content is not indexed yet, the pass completes without error, exactly one
\* Image of that content exists afterwards, and the other new files of the
\* batch are persisted.
C27_IdenticalFilesOneImage ==
    ( /\ last.op = "pass" /\ last.found
      /\ \E p, q \in NewInPass :
            p # q /\ compute_file_hash(p) = compute_file_hash(q) )
    => /\ ~last.raised
       /\ \A p \in NewInPass :
             Cardinality(ExistingByHash(images, compute_file_hash(p))) = 1

\* A pass reported /p/a.jpg and /p/b.jpg, new and of the same bytes: it
\* raised and no Image was stored.
IdenticalFilesPassRaised ==
    /\ last.op = "pass" /\ last.found
    /\ { "/p/a.jpg", "/p/b.jpg" } \subseteq NewInPass
    /\ compute_file_hash("/p/a.jpg") = compute_file_hash("/p/b.jpg")
    /\ last.embedded = { "/p/a.jpg", "/p/b.jpg" }
    /\ last.raised
    /\ images = {}

(***************************************************************************)
(* Jobs of the scheduler end.                                              *)
(***************************************************************************)
\* Job j exists and is in the given status.
JobIs(j, status) == j <= Len(jobs) /\ jobs[j].status = status

\* C28: every job the scheduler creates reaches a terminal status, completed
\* or error, and does not stay in processing forever, also when the row is
\* removed between the listing and the pass and when the loop is stopped
\* during the pass.
C28_JobsReachTerminal ==
    \A j \in 1..MaxJobs :
        JobIs(j, "processing") ~> (JobIs(j, "completed") \/ JobIs(j, "error"))

\* The pass found its row removed and returned: its job is in processing and
\* no loop task holds it any more.
JobLeftProcessing ==
    /\ last.op = "scheduled"
    /\ last.outcome = "missing"
    /\ JobIs(last.job, "processing")
    /\ \A t \in DOMAIN job_id : job_id[t] # last.job

(***************************************************************************)
(* Files and their vectors.                                                *)
(***************************************************************************)
\* C29: every Image an ingestion path stores is paired with the vector
\* computed for its own file, also when an earlier sub-batch failed: a
\* failed sub-batch leaves only its own files without an Image and shifts
\* no vector onto another file.
C29_OwnVector ==
    last.op = "batch"
    => /\ \A i \in 1..Len(last.saved) :
             last.saved[i].vector = VectorOf(last.saved[i].file)
       /\ \A k \in 1..last.files :
             ((k - 1) \div 12) \notin last.failed
             => \E i \in 1..Len(last.saved) : last.saved[i].file = k

\* The directory endpoint's job on 13 files, the first sub-batch of 12
\* failing: the first file is stored with the vector of the thirteenth.
VectorShifted ==
    /\ last.op = "batch"
    /\ last.path = "legacy"
    /\ last.files = 13
    /\ last.failed = { 0 }
    /\ last.saved = << [file |-> 1, vector |-> VectorOf(13)] >>

\* On the other two paths the same batch keeps the thirteenth file with its
\* own vector.
VectorKept ==
    /\ last.op = "batch"
    /\ last.path = "job"
    /\ last.files = 13
    /\ last.failed = { 0 }
    /\ last.saved = << [file |-> 13, vector |-> VectorOf(13)] >>

=============================================================================
